---- MODULE Spec2Model ----
(***************************************************************************)
(* Hostel management backend (server.js): the tables, the request handlers *)
(* of the Postgres and of the SQLite variant, and the properties of the    *)
(* attendance batch, the EB batch and the soft delete lifecycle.           *)
(*                                                                         *)
(* A table is a set of rows, each row a record with its surrogate id; the  *)
(* SERIAL / AUTOINCREMENT counter of a table is a variable of its own.     *)
(* An action is one awaited statement of a handler (or the handler, when it *)
(* has one statement): a handler of several statements keeps its position  *)
(* and its local values in inflight, and the statements of other requests  *)
(* may run between two of its statements.                                  *)
(* response is the answer to the request served last, tagged with the      *)
(* handler that gave it.                                                   *)
(***************************************************************************)
EXTENDS Integers, Sequences, FiniteSets, TLC

VARIABLES variant, students, students_seq, attendance, attendance_seq,
          monthly_accounts, monthly_accounts_seq, clock, response, inflight,
          rent_payments, rent_payments_seq, extra_food, extra_food_seq,
          serial

vars == <<variant, students, students_seq, attendance, attendance_seq,
          monthly_accounts, monthly_accounts_seq, clock, response, inflight,
          rent_payments, rent_payments_seq, extra_food, extra_food_seq, serial>>

\* the rent_payments and extra_food tables with their id counters
ledgers == <<rent_payments, rent_payments_seq, extra_food, extra_food_seq>>

(* ---------------------------- bounds ----------------------------------- *)
\* students ever registered / attendance rows ever inserted, attendance requests
MaxAttStudents == 1
MaxAttRows == 2
\* the same, two attendance batches in flight at once
MaxConcStudents == 1
MaxConcRows == 2
\* students ever registered, monthly account requests
MaxEbStudents == 2
\* monthly_accounts rows ever inserted, monthly account requests
MaxMaRows == 2
\* students ever registered, permanent delete
MaxPermStudents == 1
\* students ever registered / latest clock reading, student lifecycle
MaxLifeStudents == 2
MaxClock == 3

(* ------------------------- value domains ------------------------------- *)
NULL == 0
Variants == {"pg", "sqlite"}
Hostels == {"H1", "H2"}
Rooms == {"101", "102"}
Dates == {"2024-01", "2024-02"}
Procs == {1, 2}

(* ---------------------------- helpers ---------------------------------- *)
\* res.status(code).json({ success, message, ...data })
Resp(op, code, success, message, data) ==
  [op |-> op, code |-> code, success |-> success, message |-> message, data |-> data]

\* COALESCE(is_deleted, 0) = 0
IsActive(s) == s.is_deleted = 0

\* SELECT id FROM students WHERE hostel_code=$1 AND room_number=$2 AND COALESCE(is_deleted,0)=0
ActiveInRoom(stu, h, r) ==
  {s.id : s \in {x \in stu : x.hostel_code = h /\ x.room_number = r /\ IsActive(x)}}

\* the orders in which a SELECT without ORDER BY may return a set of ids
AnyOrder(S) ==
  {f \in [1..Cardinality(S) -> S] : \A i, j \in 1..Cardinality(S) : f[i] = f[j] => i = j}

\* ORDER BY id
ById(S) ==
  CHOOSE f \in AnyOrder(S) : \A i, j \in 1..Cardinality(S) : i < j => f[i] < f[j]

\* Math.max(0, x)
Max0(x) == IF x > 0 THEN x ELSE 0

(* ------------------------------ Init ----------------------------------- *)
\* SQL NULL in the text column photo_path
NoPhoto == ""
\* the texts of the status column and of the status a request carries: a JavaScript
\* string, the sequence of its UTF-16 code units ("Present", "Absent", "Late")
Present == <<80, 114, 101, 115, 101, 110, 116>>
Absent == <<65, 98, 115, 101, 110, 116>>
Late == <<76, 97, 116, 101>>

Idle == [pc |-> "idle"]

\* the step is a statement of one request taken while another request is in flight (it
\* has run a statement and its handler has not ended) and stays where it is; the step is
\* neither the passing of time nor the clearing of the record of a request that has ended
Overlap ==
  /\ clock' = clock
  /\ \A p \in Procs : inflight[p].pc \in {"pdDone", "sdDone"} => inflight'[p] = inflight[p]
  /\ \E p \in Procs :
       inflight[p].pc \notin {"idle", "pdDone", "sdDone"} /\ inflight'[p] = inflight[p]

\* serial is a history variable, no value of the program and read by no action: it is
\* TRUE as long as the requests have been served one after another, none arriving while
\* another was between two of its statements. Every step of a next-state relation keeps it
Recorded == serial' = (serial /\ ~Overlap)

Init ==
  /\ variant \in Variants
  /\ students = {}
  /\ students_seq = 1
  /\ attendance = {}
  /\ attendance_seq = 1
  /\ monthly_accounts = {}
  /\ monthly_accounts_seq = 1
  /\ clock = 1
  /\ response = Resp("none", 0, TRUE, "", <<>>)
  /\ inflight = [p \in Procs |-> Idle]
  /\ rent_payments = {}
  /\ rent_payments_seq = 1
  /\ extra_food = {}
  /\ extra_food_seq = 1
  /\ serial = TRUE

(* --------------------------- students ---------------------------------- *)
\* new Date().toISOString(): the wall clock, read by the soft delete
nowIso == clock

\* time passes between two requests
Tick ==
  /\ clock < MaxClock
  /\ clock' = clock + 1
  /\ UNCHANGED <<variant, ledgers, students, students_seq, attendance, attendance_seq,
                 monthly_accounts, monthly_accounts_seq, response, inflight>>

\* POST /api/students, one INSERT; p stands for the profile columns the roster queries
\* never read (address, course, phone, food_option, the rent columns, the dates).
\* photo_path: req.file ? `/uploads/${req.file.filename}` : null in the SQLite handler;
\* the Postgres handler stores null whatever the request carries
CreateStudent(h, n, r, t, p, photo) ==
  /\ students' = students \cup
       {[id |-> students_seq, hostel_code |-> h, name |-> n, room_number |-> r,
         room_type |-> t, profile |-> p, photo_path |-> IF variant = "sqlite" THEN photo ELSE NoPhoto,
         is_deleted |-> 0, deleted_at |-> NULL]}
  /\ students_seq' = students_seq + 1
  /\ response' = Resp("createStudent", 200, TRUE, "", <<students_seq>>)
  /\ UNCHANGED <<variant, ledgers, attendance, attendance_seq, monthly_accounts,
                 monthly_accounts_seq, clock, inflight>>

\* Postgres: UPDATE students SET hostel_code=.., name=.., .., date_leave=$13 WHERE id=$14
\* (photo_path is not in the SET list)
UpdateStudentRows(stu, id, h, n, r, t, p) ==
  {IF s.id = id
     THEN [s EXCEPT !.hostel_code = h, !.name = n, !.room_number = r,
                    !.room_type = t, !.profile = p]
     ELSE s : s \in stu}

\* SQLite: SELECT photo_path FROM students WHERE id = ?;
\* const photoPath = newPhotoPath || (row ? row.photo_path : null)
UpdatePhotoPath(stu, id, photo) ==
  IF photo # NoPhoto THEN {photo}
  ELSE IF \E s \in stu : s.id = id THEN {s.photo_path : s \in {x \in stu : x.id = id}}
  ELSE {NoPhoto}

\* SQLite: UPDATE students SET hostel_code=?, .., date_leave=?, photo_path=? WHERE id=?
UpdateStudentRowsPhoto(stu, id, h, n, r, t, p, photoPath) ==
  {IF s.id = id
     THEN [s EXCEPT !.hostel_code = h, !.name = n, !.room_number = r,
                    !.room_type = t, !.profile = p, !.photo_path = photoPath]
     ELSE s : s \in stu}

\* Postgres PUT /api/students/:id: one UPDATE .. RETURNING *, rowCount 0 answers
\* "Student not found" (the SQLite handler is UsSelect followed by UsUpdate)
UpdateStudent(id, h, n, r, t, p) ==
  /\ variant = "pg"
  /\ students' = UpdateStudentRows(students, id, h, n, r, t, p)
  /\ response' = IF \E s \in students : s.id = id
                   THEN Resp("updateStudent", 200, TRUE, "", <<>>)
                   ELSE Resp("updateStudent", 200, FALSE, "Student not found", <<>>)
  /\ UNCHANGED <<variant, ledgers, students_seq, attendance, attendance_seq,
                 monthly_accounts, monthly_accounts_seq, clock, inflight>>

\* SQLite PUT /api/students/:id, first statement: db.get(SELECT photo_path ..)
UsSelect(q, id, h, n, r, t, p, photo) ==
  /\ variant = "sqlite"
  /\ inflight[q].pc = "idle"
  /\ \E photoPath \in UpdatePhotoPath(students, id, photo) :
       inflight' = [inflight EXCEPT ![q] =
                      [pc |-> "usUpdate", id |-> id, hostel_code |-> h, name |-> n,
                       room_number |-> r, room_type |-> t, profile |-> p,
                       photoPath |-> photoPath]]
  /\ UNCHANGED <<variant, ledgers, students, students_seq, attendance, attendance_seq,
                 monthly_accounts, monthly_accounts_seq, clock, response>>

\* SQLite PUT /api/students/:id, second statement in the callback of the first: the UPDATE
\* with the photo path computed from the earlier read, then res.json({ success: true })
\* without a look at this.changes
UsUpdate(q) ==
  LET u == inflight[q]
  IN /\ u.pc = "usUpdate"
     /\ students' = UpdateStudentRowsPhoto(students, u.id, u.hostel_code, u.name,
                                           u.room_number, u.room_type, u.profile, u.photoPath)
     /\ response' = Resp("updateStudent", 200, TRUE, "", <<>>)
     /\ inflight' = [inflight EXCEPT ![q] = Idle]
     /\ UNCHANGED <<variant, ledgers, students_seq, attendance, attendance_seq,
                    monthly_accounts, monthly_accounts_seq, clock>>

\* the rows matched by: WHERE id = $2 AND COALESCE(is_deleted, 0) = 0
SoftDeleteMatched(stu, id) == {s \in stu : s.id = id /\ IsActive(s)}

\* the UPDATE of the soft delete without its guard on is_deleted
SoftDeleteRowsUnguarded(stu, id, now) ==
  {IF s.id = id THEN [s EXCEPT !.is_deleted = 1, !.deleted_at = now] ELSE s : s \in stu}

\* UPDATE students SET is_deleted = 1, deleted_at = $1 WHERE id = $2 AND COALESCE(is_deleted, 0) = 0
SoftDeleteRows(stu, id, now) ==
  {IF s \in SoftDeleteMatched(stu, id)
     THEN [s EXCEPT !.is_deleted = 1, !.deleted_at = now]
     ELSE s : s \in stu}

\* a soft delete that also drops the student's attendance rows
SoftDeleteCascade(id) ==
  /\ \E now \in 1..nowIso : students' = SoftDeleteRows(students, id, now)
  /\ attendance' = {a \in attendance : a.student_id # id}
  /\ response' =
       IF SoftDeleteMatched(students, id) = {}
         THEN Resp("softDelete", 200, FALSE, "Student not found (or already deleted)", <<>>)
         ELSE Resp("softDelete", 200, TRUE, "", <<>>)
  /\ UNCHANGED <<variant, ledgers, students_seq, attendance_seq,
                 monthly_accounts, monthly_accounts_seq, clock, inflight>>

\* DELETE /api/students/:id, its one statement and its answer. The parameters
\* [nowIso(), id] are evaluated when the handler runs and the UPDATE is carried out after
\* that: the stamp is the clock of that moment, now or earlier
SoftDelete(id) ==
  /\ \E now \in 1..nowIso : students' = SoftDeleteRows(students, id, now)
  /\ response' =
       IF SoftDeleteMatched(students, id) = {}
         THEN Resp("softDelete", 200, FALSE, "Student not found (or already deleted)", <<>>)
         ELSE Resp("softDelete", 200, TRUE, "", <<>>)
  /\ UNCHANGED <<variant, ledgers, students_seq, attendance, attendance_seq,
                 monthly_accounts, monthly_accounts_seq, clock, inflight>>

\* a restore that matches soft-deleted rows only
RestoreMatchedDeletedOnly(stu, id) == {s \in stu : s.id = id /\ s.is_deleted = 1}

\* the rows matched by: WHERE id = $1
RestoreMatched(stu, id) == {s \in stu : s.id = id}

\* a restore that clears the flag and keeps the timestamp
RestoreRowsKeepStamp(stu, id) ==
  {IF s \in RestoreMatched(stu, id) THEN [s EXCEPT !.is_deleted = 0] ELSE s : s \in stu}

\* UPDATE students SET is_deleted = 0, deleted_at = NULL WHERE id = $1
RestoreRows(stu, id) ==
  {IF s \in RestoreMatched(stu, id)
     THEN [s EXCEPT !.is_deleted = 0, !.deleted_at = NULL]
     ELSE s : s \in stu}

\* POST /api/students/:id/restore
Restore(id) ==
  /\ students' = RestoreRows(students, id)
  /\ response' =
       IF RestoreMatched(students, id) = {}
         THEN Resp("restore", 200, FALSE, "Student not found", <<>>)
         ELSE Resp("restore", 200, TRUE, "", <<>>)
  /\ UNCHANGED <<variant, ledgers, students_seq, attendance, attendance_seq,
                 monthly_accounts, monthly_accounts_seq, clock, inflight>>

\* an active roster that forgets the filter on is_deleted
ActiveListAll(stu, h) == {s.id : s \in {x \in stu : x.hostel_code = h}}

\* GET /api/students/list: the ids of the active roster of a hostel
ActiveList(stu, h) == {s.id : s \in {x \in stu : x.hostel_code = h /\ IsActive(x)}}

\* GET /api/students/old: the ids of the soft-deleted roster of a hostel
OldList(stu, h) == {s.id : s \in {x \in stu : x.hostel_code = h /\ x.is_deleted = 1}}

(* --------------------------- attendance -------------------------------- *)
\* const status = absentSet.has(sid) ? "Absent" : "Present"
StatusFor(absentSet, sid) == IF sid \in absentSet THEN Absent ELSE Present

\* SELECT id FROM attendance WHERE hostel_code=$1 AND date=$2 AND room_number=$3 AND student_id=$4
\* (LIMIT 1 without ORDER BY returns any one of the matching rows)
ExistingAtt(rows, h, d, r, sid) ==
  {a \in rows : a.hostel_code = h /\ a.date = d /\ a.room_number = r /\ a.student_id = sid}

\* UPDATE attendance SET status=$1 WHERE id=$2
UpdateAttStatus(rows, id, status) ==
  {IF a.id = id THEN [a EXCEPT !.status = status] ELSE a : a \in rows}

\* INSERT INTO attendance (hostel_code, date, room_number, student_id, status) VALUES (..)
InsertAtt(rows, seq, h, d, r, sid, status) ==
  rows \cup {[id |-> seq, hostel_code |-> h, date |-> d, room_number |-> r,
              student_id |-> sid, status |-> status]}

\* one pass of the loop body: the tables [rows, seq] it may leave
AttUpsert(tbl, h, d, r, sid, status) ==
  LET existing == ExistingAtt(tbl.rows, h, d, r, sid)
  IN IF existing # {}
       THEN {[rows |-> UpdateAttStatus(tbl.rows, e.id, status), seq |-> tbl.seq] : e \in existing}
       ELSE {[rows |-> InsertAtt(tbl.rows, tbl.seq, h, d, r, sid, status), seq |-> tbl.seq + 1]}

\* for (const s of students) { ... }
RECURSIVE AttLoop(_, _, _, _, _, _)
AttLoop(tbl, order, h, d, r, absentSet) ==
  IF order = <<>> THEN {tbl}
  ELSE UNION {AttLoop(t2, Tail(order), h, d, r, absentSet) :
                t2 \in AttUpsert(tbl, h, d, r, Head(order), StatusFor(absentSet, Head(order)))}

BatchValidationDateFirst(h, r, d) ==
  IF d = "" THEN "Missing date"
  ELSE IF r = "" THEN "Missing room"
  ELSE IF h = "" THEN "Missing hostel_code"
  ELSE "ok"

\* the validation of the two batch endpoints: hostel_code, room, date, in this order
BatchValidation(h, r, d) ==
  IF h = "" THEN "Missing hostel_code"
  ELSE IF r = "" THEN "Missing room"
  ELSE IF d = "" THEN "Missing date"
  ELSE "ok"

\* the roster SELECT and the loop: the attendance tables a batch may leave when no other
\* request runs between its statements
AttBatchResults(stu, tbl, h, r, d, absent_ids) ==
  UNION {AttLoop(tbl, order, h, d, r, absent_ids) : order \in AnyOrder(ActiveInRoom(stu, h, r))}

\* POST /api/rooms/:room/attendance, rejected by the validation
AttendanceBatchInvalid(h, r, d, absent_ids) ==
  /\ BatchValidation(h, r, d) # "ok"
  /\ response' = Resp("attendanceBatch", 400, FALSE, BatchValidation(h, r, d), <<>>)
  /\ UNCHANGED <<variant, ledgers, students, students_seq, attendance, attendance_seq,
                 monthly_accounts, monthly_accounts_seq, clock, inflight>>

\* UPDATE attendance SET date=$1, room_number=$2, status=$3 WHERE id=$4
UpdateAttRow(rows, id, d, r, status) ==
  {IF a.id = id THEN [a EXCEPT !.date = d, !.room_number = r, !.status = status] ELSE a : a \in rows}

\* the code units String.prototype.trim removes, WhiteSpace and LineTerminator of
\* ECMAScript: U+0009 tab, U+000A line feed, U+000B vertical tab, U+000C form feed,
\* U+000D carriage return, U+0020 space, U+00A0 no-break space, U+1680 ogham space mark,
\* U+2000..U+200A, U+2028 line separator, U+2029 paragraph separator, U+202F, U+205F,
\* U+3000 ideographic space and U+FEFF byte order mark
WhiteSpace ==
  {9, 10, 11, 12, 13, 32, 160, 5760} \cup (8192..8202) \cup {8232, 8233, 8239, 8287, 12288, 65279}

RECURSIVE TrimStart(_)
TrimStart(str) ==
  IF str # <<>> /\ Head(str) \in WhiteSpace THEN TrimStart(Tail(str)) ELSE str

RECURSIVE TrimEnd(_)
TrimEnd(str) ==
  IF str # <<>> /\ str[Len(str)] \in WhiteSpace
    THEN TrimEnd(SubSeq(str, 1, Len(str) - 1))
    ELSE str

\* String(status || "").trim(); a request without status carries <<>>
Trim(status) == TrimEnd(TrimStart(status))

UpdateAttendanceUnchecked(id, d, r, status) ==
  /\ attendance' = UpdateAttRow(attendance, id, d, r, status)
  /\ response' = IF \E a \in attendance : a.id = id
                   THEN Resp("updateAttendance", 200, TRUE, "", <<>>)
                   ELSE Resp("updateAttendance", 200, FALSE, "Attendance row not found", <<>>)
  /\ UNCHANGED <<variant, ledgers, students, students_seq, attendance_seq, monthly_accounts,
                 monthly_accounts_seq, clock, inflight>>

\* PUT /api/attendance/:id
UpdateAttendance(id, d, r, status) ==
  LET statusClean == Trim(status)
  IN /\ IF statusClean # Present /\ statusClean # Absent
          THEN /\ response' = Resp("updateAttendance", 400, FALSE, "Status must be Present or Absent", <<>>)
               /\ attendance' = attendance
          ELSE /\ attendance' = UpdateAttRow(attendance, id, d, r, statusClean)
               /\ response' = IF \E a \in attendance : a.id = id
                                THEN Resp("updateAttendance", 200, TRUE, "", <<>>)
                                ELSE Resp("updateAttendance", 200, FALSE, "Attendance row not found", <<>>)
     /\ UNCHANGED <<variant, ledgers, students, students_seq, attendance_seq, monthly_accounts,
                    monthly_accounts_seq, clock, inflight>>

\* DELETE /api/attendance/:id
DeleteAttendance(id) ==
  /\ attendance' = {a \in attendance : a.id # id}
  /\ response' = IF \E a \in attendance : a.id = id
                   THEN Resp("deleteAttendance", 200, TRUE, "", <<>>)
                   ELSE Resp("deleteAttendance", 200, FALSE, "Attendance row not found", <<>>)
  /\ UNCHANGED <<variant, ledgers, students, students_seq, attendance_seq, monthly_accounts,
                 monthly_accounts_seq, clock, inflight>>

(* ------------- attendance batch, one statement at a time --------------- *)
\* the handler up to its first await in the try block: validation passed, roster SELECT sent
AttStart(p, h, r, d, absent_ids) ==
  /\ inflight[p].pc = "idle"
  /\ BatchValidation(h, r, d) = "ok"
  /\ \E order \in AnyOrder(ActiveInRoom(students, h, r)) :
       inflight' = [inflight EXCEPT ![p] =
                      [pc |-> "select", hostel_code |-> h, room |-> r, date |-> d,
                       absentSet |-> absent_ids, students |-> order, i |-> 1, existing |-> {}]]
  /\ UNCHANGED <<variant, ledgers, students, students_seq, attendance, attendance_seq,
                 monthly_accounts, monthly_accounts_seq, clock, response>>

\* const existing = await getAsync(`SELECT id FROM attendance WHERE .. LIMIT 1`)
AttSelect(p) ==
  LET q == inflight[p]
  IN /\ q.pc = "select" /\ q.i <= Len(q.students)
     /\ LET found == ExistingAtt(attendance, q.hostel_code, q.date, q.room, q.students[q.i])
        IN \E e \in (IF found = {} THEN {{}} ELSE {{a.id} : a \in found}) :
             inflight' = [inflight EXCEPT ![p] = [q EXCEPT !.pc = "write", !.existing = e]]
     /\ UNCHANGED <<variant, ledgers, students, students_seq, attendance, attendance_seq,
                    monthly_accounts, monthly_accounts_seq, clock, response>>

\* if (existing) await runAsync(UPDATE ..) else await runAsync(INSERT ..)
AttWrite(p) ==
  LET q == inflight[p]
      sid == q.students[q.i]
      status == StatusFor(q.absentSet, sid)
  IN /\ q.pc = "write"
     /\ IF q.existing # {}
          THEN /\ attendance' = UNION {UpdateAttStatus(attendance, id, status) : id \in q.existing}
               /\ attendance_seq' = attendance_seq
          ELSE /\ attendance' = InsertAtt(attendance, attendance_seq, q.hostel_code, q.date,
                                          q.room, sid, status)
               /\ attendance_seq' = attendance_seq + 1
     /\ inflight' = [inflight EXCEPT ![p] = [q EXCEPT !.pc = "select", !.i = q.i + 1,
                                                      !.existing = {}]]
     /\ UNCHANGED <<variant, ledgers, students, students_seq, monthly_accounts,
                    monthly_accounts_seq, clock, response>>

\* res.json({ success: true, total_students: students.length })
AttRespond(p) ==
  LET q == inflight[p]
  IN /\ q.pc = "select" /\ q.i > Len(q.students)
     /\ response' = Resp("attendanceBatch", 200, TRUE, "", <<Len(q.students)>>)
     /\ inflight' = [inflight EXCEPT ![p] = Idle]
     /\ UNCHANGED <<variant, ledgers, students, students_seq, attendance, attendance_seq,
                    monthly_accounts, monthly_accounts_seq, clock>>

\* the roster SELECT rejects: catch (e) { res.status(500).json(..) }, nothing was written
AttStartThrows(h, r, d) ==
  /\ BatchValidation(h, r, d) = "ok"
  /\ response' = Resp("attendanceBatch", 500, FALSE, "DB error saving attendance", <<>>)
  /\ UNCHANGED <<variant, ledgers, students, students_seq, attendance, attendance_seq,
                 monthly_accounts, monthly_accounts_seq, clock, inflight>>

\* a catch block that answers 500 and goes on with the next student
AttThrowGoesOn(p) ==
  LET q == inflight[p]
  IN /\ q.pc \in {"select", "write"} /\ q.i <= Len(q.students)
     /\ response' = Resp("attendanceBatch", 500, FALSE, "DB error saving attendance", <<>>)
     /\ inflight' = [inflight EXCEPT ![p] = [q EXCEPT !.pc = "select", !.i = q.i + 1,
                                                      !.existing = {}]]
     /\ UNCHANGED <<variant, ledgers, students, students_seq, attendance, attendance_seq,
                    monthly_accounts, monthly_accounts_seq, clock>>

\* the SELECT, the UPDATE or the INSERT of the current pass rejects: control leaves the loop
\* for catch (e) { res.status(500).json(..) }; the rows written by the earlier passes stay
\* (each statement is committed on its own) and the statement is not issued again
AttThrow(p) ==
  LET q == inflight[p]
  IN /\ q.pc \in {"select", "write"} /\ q.i <= Len(q.students)
     /\ response' = Resp("attendanceBatch", 500, FALSE, "DB error saving attendance", <<>>)
     /\ inflight' = [inflight EXCEPT ![p] = Idle]
     /\ UNCHANGED <<variant, ledgers, students, students_seq, attendance, attendance_seq,
                    monthly_accounts, monthly_accounts_seq, clock>>

(* ------------------------ monthly accounts ----------------------------- *)
\* parseInt(v, 10) of a JSON integer below 10^21 is that integer
ParseInt(v) == v

\* INSERT INTO monthly_accounts (hostel_code, student_id, date, room_number, rent_paid,
\*   rent_remaining, eb_share, eb_paid, eb_remaining) VALUES (..)
InsertMa(rows, seq, h, sid, d, r, rp, rr, es, ep, er) ==
  rows \cup {[id |-> seq, hostel_code |-> h, student_id |-> sid, date |-> d,
              room_number |-> r, rent_paid |-> rp, rent_remaining |-> rr,
              eb_share |-> es, eb_paid |-> ep, eb_remaining |-> er]}

\* POST /api/students/:id/monthly-account
CreateMonthlyAccount(sid, h, d, r, rp, rr, es, ep, er) ==
  /\ IF h = "" \/ d = ""
       THEN /\ response' = Resp("createMonthlyAccount", 400, FALSE,
                                IF h = "" THEN "Missing hostel_code" ELSE "Missing date", <<>>)
            /\ UNCHANGED <<monthly_accounts, monthly_accounts_seq>>
       ELSE /\ monthly_accounts' =
                 InsertMa(monthly_accounts, monthly_accounts_seq, h, sid, d, r, ParseInt(rp),
                          ParseInt(rr), ParseInt(es), ParseInt(ep), ParseInt(er))
            /\ monthly_accounts_seq' = monthly_accounts_seq + 1
            /\ response' = Resp("createMonthlyAccount", 200, TRUE, "", <<monthly_accounts_seq>>)
  /\ UNCHANGED <<variant, ledgers, students, students_seq, attendance, attendance_seq, clock, inflight>>

\* UPDATE monthly_accounts SET date=$1, room_number=$2, rent_paid=$3, rent_remaining=$4,
\*   eb_share=$5, eb_paid=$6, eb_remaining=$7 WHERE id=$8
UpdateMaRow(rows, id, d, r, rp, rr, es, ep, er) ==
  {IF m.id = id
     THEN [m EXCEPT !.date = d, !.room_number = r, !.rent_paid = rp, !.rent_remaining = rr,
                    !.eb_share = es, !.eb_paid = ep, !.eb_remaining = er]
     ELSE m : m \in rows}

\* PUT /api/monthly_accounts/:id
UpdateMonthlyAccount(id, d, r, rp, rr, es, ep, er) ==
  /\ monthly_accounts' =
       UpdateMaRow(monthly_accounts, id, d, r, ParseInt(rp), ParseInt(rr), ParseInt(es),
                   ParseInt(ep), ParseInt(er))
  /\ response' = IF \E m \in monthly_accounts : m.id = id
                   THEN Resp("updateMonthlyAccount", 200, TRUE, "", <<>>)
                   ELSE Resp("updateMonthlyAccount", 200, FALSE, "Monthly entry not found", <<>>)
  /\ UNCHANGED <<variant, ledgers, students, students_seq, attendance, attendance_seq,
                 monthly_accounts_seq, clock, inflight>>

\* DELETE /api/monthly_accounts/:id
DeleteMonthlyAccount(id) ==
  /\ monthly_accounts' = {m \in monthly_accounts : m.id # id}
  /\ response' = IF \E m \in monthly_accounts : m.id = id
                   THEN Resp("deleteMonthlyAccount", 200, TRUE, "", <<>>)
                   ELSE Resp("deleteMonthlyAccount", 200, FALSE, "Monthly entry not found", <<>>)
  /\ UNCHANGED <<variant, ledgers, students, students_seq, attendance, attendance_seq,
                 monthly_accounts_seq, clock, inflight>>

(* ----------------------------- EB batch -------------------------------- *)
\* const ebShare = Math.floor(ebTotal / students.length)
EbShare(ebTotal, n) == ebTotal \div n

\* SELECT id, eb_paid FROM monthly_accounts WHERE hostel_code=$1 AND student_id=$2 AND date=$3
\* (LIMIT 1 without ORDER BY returns any one of the matching rows)
ExistingMa(rows, h, sid, d) ==
  {m \in rows : m.hostel_code = h /\ m.student_id = sid /\ m.date = d}

\* currentEbPaid = parseInt(existing.eb_paid || 0, 10); newEbRemaining = Math.max(0, ebShare - currentEbPaid);
\* UPDATE monthly_accounts SET room_number=$1, eb_share=$2, eb_remaining=$3 WHERE id=$4
UpdateMaEb(rows, e, r, ebShare) ==
  {IF m.id = e.id
     THEN [m EXCEPT !.room_number = r, !.eb_share = ebShare,
                    !.eb_remaining = Max0(ebShare - ParseInt(e.eb_paid))]
     ELSE m : m \in rows}

\* the INSERT of the batch: VALUES (hostel_code, s.id, date, room, 0, 0, ebShare, 0, ebShare)
InsertMaEb(rows, seq, h, sid, d, r, ebShare) ==
  InsertMa(rows, seq, h, sid, d, r, 0, 0, ebShare, 0, ebShare)

\* one pass of the loop body: the tables [rows, seq] it may leave
EbUpsert(tbl, h, sid, d, r, ebShare) ==
  LET existing == ExistingMa(tbl.rows, h, sid, d)
  IN IF existing # {}
       THEN {[rows |-> UpdateMaEb(tbl.rows, e, r, ebShare), seq |-> tbl.seq] : e \in existing}
       ELSE {[rows |-> InsertMaEb(tbl.rows, tbl.seq, h, sid, d, r, ebShare), seq |-> tbl.seq + 1]}

\* for (const s of students) { ... }
RECURSIVE EbLoop(_, _, _, _, _, _)
EbLoop(tbl, order, h, d, r, ebShare) ==
  IF order = <<>> THEN {tbl}
  ELSE UNION {EbLoop(t2, Tail(order), h, d, r, ebShare) :
                t2 \in EbUpsert(tbl, h, Head(order), d, r, ebShare)}

\* the roster SELECT, the share and the loop: the monthly_accounts tables a batch may leave
\* for a room with active students when no other request runs between its statements
EbBatchResults(stu, tbl, h, r, d, eb_total) ==
  LET roster == ActiveInRoom(stu, h, r)
  IN EbLoop(tbl, ById(roster), h, d, r, EbShare(ParseInt(eb_total), Cardinality(roster)))

\* an empty room answered as a storage error
EbEmptyRoomAs500 == Resp("ebBatch", 500, FALSE, "DB error saving EB batch", <<>>)

\* if (students.length === 0) return res.json({ success: false, message: .. })
EbEmptyRoom == Resp("ebBatch", 200, FALSE, "No active students in this room.", <<>>)

\* POST /api/rooms/:room/eb-batch, rejected by the validation
EbBatchInvalid(h, r, d, eb_total) ==
  /\ BatchValidation(h, r, d) # "ok"
  /\ response' = Resp("ebBatch", 400, FALSE, BatchValidation(h, r, d), <<>>)
  /\ UNCHANGED <<variant, ledgers, students, students_seq, attendance, attendance_seq,
                 monthly_accounts, monthly_accounts_seq, clock, inflight>>

\* GET /api/students/by-room: the ids of the active students of a room
ByRoom(stu, h, r) ==
  {s.id : s \in {x \in stu : x.hostel_code = h /\ x.room_number = r /\ IsActive(x)}}

\* GET /api/students/by-roomtype: the ids of the active students of a room type
ByRoomType(stu, h, t) ==
  {s.id : s \in {x \in stu : x.hostel_code = h /\ x.room_type = t /\ IsActive(x)}}

\* GET /api/students/:id: the rows the SELECT matches, with or without ?includeDeleted=1
FetchById(stu, id, includeDeleted) ==
  IF includeDeleted THEN {s \in stu : s.id = id}
  ELSE {s \in stu : s.id = id /\ IsActive(s)}

(* --------------------------- name search ------------------------------- *)
\* a name is the sequence of its letters
\* SQL LOWER on the ASCII capitals, as a table from the capital to its small letter
ToLower ==
  [A |-> "a", B |-> "b", C |-> "c", D |-> "d", E |-> "e", F |-> "f", G |-> "g",
   H |-> "h", I |-> "i", J |-> "j", K |-> "k", L |-> "l", M |-> "m", N |-> "n",
   O |-> "o", P |-> "p", Q |-> "q", R |-> "r", S |-> "s", T |-> "t", U |-> "u",
   V |-> "v", W |-> "w", X |-> "x", Y |-> "y", Z |-> "z"]

\* a LOWER that leaves capitals as they are
LowerCharKeep(c) == c

\* LOWER on one character: an ASCII capital becomes its small letter, any other
\* character stays
LowerChar(c) == IF c \in DOMAIN ToLower THEN ToLower[c] ELSE c

\* LOWER(name)
Lower(name) == [i \in DOMAIN name |-> LowerChar(name[i])]

\* WHERE hostel_code = $1 AND COALESCE(is_deleted, 0) = 0 AND LOWER(name) = LOWER($2)
SearchMatches(stu, hostel, name) ==
  {s \in stu : s.hostel_code = hostel /\ IsActive(s) /\ Lower(s.name) = Lower(name)}

\* GET /api/students?hostel=&name= (LIMIT 1 without ORDER BY: any one matching row)
SearchStudent(hostel, name) ==
  /\ IF hostel = "" \/ name = <<>>
       THEN response' = Resp("searchStudent", 400, FALSE, "Missing hostel or name", <<>>)
       ELSE IF SearchMatches(students, hostel, name) = {}
         THEN response' = Resp("searchStudent", 200, FALSE, "No student found", <<>>)
         ELSE \E row \in SearchMatches(students, hostel, name) :
                response' = Resp("searchStudent", 200, TRUE, "", <<row>>)
  /\ UNCHANGED <<variant, ledgers, students, students_seq, attendance, attendance_seq,
                 monthly_accounts, monthly_accounts_seq, clock, inflight>>

(* ----------------------- rent and extra food --------------------------- *)
\* GET /api/students/:id/rent, GET /api/students/:id/extra-food,
\* GET /api/students/:id/attendance, GET /api/students/:id/monthly-account
RowsOfStudent(rows, sid) == {x \in rows : x.student_id = sid}

\* INSERT INTO rent_payments (student_id, date, rent_paid, remaining) VALUES (..)
\* INSERT INTO extra_food (student_id, date, amount, remaining) VALUES (..)
InsertLedger(rows, seq, sid, d, amount, remaining) ==
  rows \cup {[id |-> seq, student_id |-> sid, date |-> d, amount |-> amount,
              remaining |-> remaining]}

\* UPDATE rent_payments SET date, rent_paid, remaining WHERE id (and the same on extra_food)
UpdateLedgerRow(rows, id, d, amount, remaining) ==
  {IF x.id = id THEN [x EXCEPT !.date = d, !.amount = amount, !.remaining = remaining]
   ELSE x : x \in rows}

\* POST /api/students/:id/rent
AddRent(sid, d, rent_paid, remaining) ==
  /\ rent_payments' = InsertLedger(rent_payments, rent_payments_seq, sid, d,
                                   ParseInt(rent_paid), ParseInt(remaining))
  /\ rent_payments_seq' = rent_payments_seq + 1
  /\ response' = Resp("addRent", 200, TRUE, "", <<rent_payments_seq>>)
  /\ UNCHANGED <<variant, extra_food, extra_food_seq, students, students_seq, attendance,
                 attendance_seq, monthly_accounts, monthly_accounts_seq, clock, inflight>>

\* PUT /api/rent_payments/:id
UpdateRent(id, d, rent_paid, remaining) ==
  /\ rent_payments' = UpdateLedgerRow(rent_payments, id, d, ParseInt(rent_paid),
                                      ParseInt(remaining))
  /\ response' = IF \E x \in rent_payments : x.id = id
                   THEN Resp("updateRent", 200, TRUE, "", <<>>)
                   ELSE Resp("updateRent", 200, FALSE, "Rent entry not found", <<>>)
  /\ UNCHANGED <<variant, rent_payments_seq, extra_food, extra_food_seq, students,
                 students_seq, attendance, attendance_seq, monthly_accounts,
                 monthly_accounts_seq, clock, inflight>>

\* DELETE /api/rent_payments/:id
DeleteRent(id) ==
  /\ rent_payments' = {x \in rent_payments : x.id # id}
  /\ response' = IF \E x \in rent_payments : x.id = id
                   THEN Resp("deleteRent", 200, TRUE, "", <<>>)
                   ELSE Resp("deleteRent", 200, FALSE, "Rent entry not found", <<>>)
  /\ UNCHANGED <<variant, rent_payments_seq, extra_food, extra_food_seq, students,
                 students_seq, attendance, attendance_seq, monthly_accounts,
                 monthly_accounts_seq, clock, inflight>>

\* POST /api/students/:id/extra-food
AddExtraFood(sid, d, amount, remaining) ==
  /\ extra_food' = InsertLedger(extra_food, extra_food_seq, sid, d, ParseInt(amount),
                                ParseInt(remaining))
  /\ extra_food_seq' = extra_food_seq + 1
  /\ response' = Resp("addExtraFood", 200, TRUE, "", <<extra_food_seq>>)
  /\ UNCHANGED <<variant, rent_payments, rent_payments_seq, students, students_seq,
                 attendance, attendance_seq, monthly_accounts, monthly_accounts_seq, clock,
                 inflight>>

\* PUT /api/extra_food/:id
UpdateExtraFood(id, d, amount, remaining) ==
  /\ extra_food' = UpdateLedgerRow(extra_food, id, d, ParseInt(amount), ParseInt(remaining))
  /\ response' = IF \E x \in extra_food : x.id = id
                   THEN Resp("updateExtraFood", 200, TRUE, "", <<>>)
                   ELSE Resp("updateExtraFood", 200, FALSE, "Extra food entry not found", <<>>)
  /\ UNCHANGED <<variant, rent_payments, rent_payments_seq, extra_food_seq, students,
                 students_seq, attendance, attendance_seq, monthly_accounts,
                 monthly_accounts_seq, clock, inflight>>

\* DELETE /api/extra_food/:id
DeleteExtraFood(id) ==
  /\ extra_food' = {x \in extra_food : x.id # id}
  /\ response' = IF \E x \in extra_food : x.id = id
                   THEN Resp("deleteExtraFood", 200, TRUE, "", <<>>)
                   ELSE Resp("deleteExtraFood", 200, FALSE, "Extra food entry not found", <<>>)
  /\ UNCHANGED <<variant, rent_payments, rent_payments_seq, extra_food_seq, students,
                 students_seq, attendance, attendance_seq, monthly_accounts,
                 monthly_accounts_seq, clock, inflight>>

(* -------------------------- permanent delete --------------------------- *)
\* the five tables the permanent delete writes
Store ==
  [attendance |-> attendance, extra_food |-> extra_food, rent_payments |-> rent_payments,
   monthly_accounts |-> monthly_accounts, students |-> students]

\* a permanent delete that forgets the monthly_accounts rows
PermStatementNoMonthly(st, id, j) ==
  IF j = 1 THEN [st EXCEPT !.attendance = {x \in @ : x.student_id # id}]
  ELSE IF j = 2 THEN [st EXCEPT !.extra_food = {x \in @ : x.student_id # id}]
  ELSE IF j = 3 THEN [st EXCEPT !.rent_payments = {x \in @ : x.student_id # id}]
  ELSE IF j = 4 THEN st
  ELSE [st EXCEPT !.students = {x \in @ : x.id # id}]

\* the j-th statement of the handler: DELETE FROM attendance / extra_food / rent_payments /
\* monthly_accounts WHERE student_id = $1, then DELETE FROM students WHERE id = $1
PermStatement(st, id, j) ==
  IF j = 1 THEN [st EXCEPT !.attendance = {x \in @ : x.student_id # id}]
  ELSE IF j = 2 THEN [st EXCEPT !.extra_food = {x \in @ : x.student_id # id}]
  ELSE IF j = 3 THEN [st EXCEPT !.rent_payments = {x \in @ : x.student_id # id}]
  ELSE IF j = 4 THEN [st EXCEPT !.monthly_accounts = {x \in @ : x.student_id # id}]
  ELSE [st EXCEPT !.students = {x \in @ : x.id # id}]

SetStore(st) ==
  /\ attendance' = st.attendance
  /\ extra_food' = st.extra_food
  /\ rent_payments' = st.rent_payments
  /\ monthly_accounts' = st.monthly_accounts
  /\ students' = st.students

\* SQLite DELETE /api/students/:id/permanent, first statement:
\* const row = await getAsync(`SELECT photo_path FROM students WHERE id = ?`, [id])
\* (before is no value of the handler: the five tables as the request found them, kept for
\* the properties that compare the tables a request leaves with the ones it found)
PsStart(p, id) ==
  /\ variant = "sqlite"
  /\ inflight[p].pc = "idle"
  /\ \E photo \in {s.photo_path : s \in {x \in students : x.id = id}} \cup
                  (IF \E x \in students : x.id = id THEN {} ELSE {NoPhoto}) :
       inflight' = [inflight EXCEPT ![p] =
                      [pc |-> "psStatement", id |-> id, j |-> 1, changes |-> 0,
                       photo_path |-> photo, before |-> Store]]
  /\ UNCHANGED <<students, ledgers, attendance, monthly_accounts, response>>
  /\ UNCHANGED <<variant, students_seq, attendance_seq, monthly_accounts_seq,
                  rent_payments_seq, extra_food_seq, clock>>

\* the j-th awaited DELETE, committed on its own (the handler opens no transaction);
\* r.changes of the DELETE FROM students is kept for the answer
PsStatement(p) ==
  LET q == inflight[p]
  IN /\ q.pc = "psStatement"
     /\ SetStore(PermStatement(Store, q.id, q.j))
     /\ inflight' = [inflight EXCEPT ![p] =
                       IF q.j = 5
                         THEN [q EXCEPT !.pc = "psRespond",
                                        !.changes = Cardinality({x \in students : x.id = q.id})]
                         ELSE [q EXCEPT !.j = q.j + 1]]
     /\ response' = response
     /\ UNCHANGED <<variant, students_seq, attendance_seq, monthly_accounts_seq,
                     rent_payments_seq, extra_food_seq, clock>>

\* a statement rejects: catch (e) answers 500; the statements before it stay committed
PsThrow(p) ==
  LET q == inflight[p]
  IN /\ q.pc = "psStatement"
     /\ response' = Resp("permanentDelete", 500, FALSE, "DB error permanent deleting student", <<>>)
     /\ inflight' = [inflight EXCEPT ![p] = Idle]
     /\ UNCHANGED <<students, ledgers, attendance, monthly_accounts>>
     /\ UNCHANGED <<variant, students_seq, attendance_seq, monthly_accounts_seq,
                     rent_payments_seq, extra_food_seq, clock>>

\* if (r.changes === 0) "Student not found"; otherwise the photo file is unlinked (the
\* uploads directory is outside the tables) and the answer is success
PsRespond(p) ==
  LET q == inflight[p]
  IN /\ q.pc = "psRespond"
     /\ response' = IF q.changes = 0
                      THEN Resp("permanentDelete", 200, FALSE, "Student not found", <<>>)
                      ELSE Resp("permanentDelete", 200, TRUE, "", <<>>)
     /\ inflight' = [inflight EXCEPT ![p] = Idle]
     /\ UNCHANGED <<students, ledgers, attendance, monthly_accounts>>
     /\ UNCHANGED <<variant, students_seq, attendance_seq, monthly_accounts_seq,
                     rent_payments_seq, extra_food_seq, clock>>

(* --------- soft delete and restore, statement by statement -------------- *)
SdFrame == UNCHANGED <<variant, ledgers, students_seq, attendance, attendance_seq,
                       monthly_accounts, monthly_accounts_seq, clock>>

\* DELETE /api/students/:id: the parameters [nowIso(), id] are evaluated, the UPDATE is queued
SdStart(p, id) ==
  /\ inflight[p].pc = "idle"
  /\ inflight' = [inflight EXCEPT ![p] =
                    [pc |-> "sdUpdate", op |-> "softDelete", id |-> id, now |-> nowIso,
                     sawActive |-> SoftDeleteMatched(students, id) # {},
                     rowCount |-> 0, message |-> ""]]
  /\ UNCHANGED <<students, response>>
  /\ SdFrame

\* the UPDATE of the soft delete, one statement
SdUpdate(p) ==
  LET q == inflight[p]
  IN /\ q.pc = "sdUpdate"
     /\ students' = SoftDeleteRows(students, q.id, q.now)
     /\ inflight' = [inflight EXCEPT ![p] =
                       [q EXCEPT !.pc = "sdRespond",
                                 !.rowCount = Cardinality(SoftDeleteMatched(students, q.id))]]
     /\ UNCHANGED response
     /\ SdFrame

\* POST /api/students/:id/restore: the request is accepted, the UPDATE is queued
RsStart(p, id) ==
  /\ inflight[p].pc = "idle"
  /\ inflight' = [inflight EXCEPT ![p] =
                    [pc |-> "rsUpdate", op |-> "restore", id |-> id, now |-> NULL,
                     sawActive |-> SoftDeleteMatched(students, id) # {},
                     rowCount |-> 0, message |-> ""]]
  /\ UNCHANGED <<students, response>>
  /\ SdFrame

\* the UPDATE of the restore, one statement
RsUpdate(p) ==
  LET q == inflight[p]
  IN /\ q.pc = "rsUpdate"
     /\ students' = RestoreRows(students, q.id)
     /\ inflight' = [inflight EXCEPT ![p] =
                       [q EXCEPT !.pc = "sdRespond",
                                 !.rowCount = Cardinality(RestoreMatched(students, q.id))]]
     /\ UNCHANGED response
     /\ SdFrame

\* if (r.rowCount === 0) return res.json({ success: false, message }); res.json({ success: true })
SdRespond(p) ==
  LET q == inflight[p]
      message == IF q.rowCount > 0 THEN ""
                 ELSE IF q.op = "softDelete" THEN "Student not found (or already deleted)"
                 ELSE "Student not found"
  IN /\ q.pc = "sdRespond"
     /\ response' = Resp(q.op, 200, q.rowCount > 0, message, <<>>)
     /\ inflight' = [inflight EXCEPT ![p] = [q EXCEPT !.pc = "sdDone", !.message = message]]
     /\ UNCHANGED students
     /\ SdFrame

\* the handler has returned; the next request may be served
SdEnd(p) ==
  /\ inflight[p].pc = "sdDone"
  /\ inflight' = [inflight EXCEPT ![p] = Idle]
  /\ UNCHANGED <<students, response>>
  /\ SdFrame

(* ------- permanent delete on a pooled client, statement by statement ---- *)
\* the table the j-th DELETE works on
PermTable(st, j) ==
  IF j = 1 THEN st.attendance
  ELSE IF j = 2 THEN st.extra_food
  ELSE IF j = 3 THEN st.rent_payments
  ELSE IF j = 4 THEN st.monthly_accounts
  ELSE st.students

\* the ids of the rows the j-th DELETE removes
PermDeletedIds(st, id, j) == {x.id : x \in PermTable(st, j) \ PermTable(PermStatement(st, id, j), j)}

\* COMMIT: the rows deleted inside the transaction leave the tables
PermCommit(st, deleted) ==
  [attendance |-> {x \in st.attendance : x.id \notin deleted[1]},
   extra_food |-> {x \in st.extra_food : x.id \notin deleted[2]},
   rent_payments |-> {x \in st.rent_payments : x.id \notin deleted[3]},
   monthly_accounts |-> {x \in st.monthly_accounts : x.id \notin deleted[4]},
   students |-> {x \in st.students : x.id \notin deleted[5]}]

PdFrame == UNCHANGED <<variant, ledgers, students, students_seq, attendance, attendance_seq,
                       monthly_accounts, monthly_accounts_seq, clock, response>>

\* const client = await pool.connect()
\* (before, released, sent and path are no values of the handler: the tables as the request
\* found them, the count of client.release() calls and of responses, the branch taken)
PdConnect(p, id) ==
  /\ variant = "pg"
  /\ inflight[p].pc = "idle"
  /\ inflight' = [inflight EXCEPT ![p] =
                    [pc |-> "pdBegin", id |-> id, j |-> 1, deleted |-> [t \in 1..5 |-> {}],
                     rowCount |-> 0, client |-> TRUE, tx |-> FALSE, released |-> 0,
                     sent |-> 0, path |-> "try", before |-> Store]]
  /\ PdFrame

\* await client.query("BEGIN")
PdBegin(p) ==
  LET q == inflight[p]
  IN /\ q.pc = "pdBegin"
     /\ inflight' = [inflight EXCEPT ![p] = [q EXCEPT !.pc = "pdStatement", !.tx = TRUE]]
     /\ PdFrame

\* the j-th DELETE inside the transaction; the DELETE FROM students waits for the row
\* lock of another transaction that has deleted the row and not yet ended
PdStatement(p) ==
  LET q == inflight[p]
      gone == PermDeletedIds(Store, q.id, q.j)
  IN /\ q.pc = "pdStatement"
     /\ q.j = 5 => ~ \E o \in Procs \ {p} :
                       /\ inflight[o].pc \in {"pdStatement", "pdCommit", "pdRollback"}
                       /\ inflight[o].deleted[5] \cap gone # {}
     /\ inflight' = [inflight EXCEPT ![p] =
                       [q EXCEPT !.deleted[q.j] = gone,
                                 !.rowCount = IF q.j = 5 THEN Cardinality(gone) ELSE 0,
                                 !.j = q.j + 1,
                                 !.pc = IF q.j = 5 THEN "pdCommit" ELSE "pdStatement"]]
     /\ PdFrame

\* await client.query("COMMIT")
PdCommit(p) ==
  LET q == inflight[p]
  IN /\ q.pc = "pdCommit"
     /\ SetStore(PermCommit(Store, q.deleted))
     /\ inflight' = [inflight EXCEPT ![p] =
                       [q EXCEPT !.pc = "pdRespond", !.tx = FALSE,
                                 !.path = IF q.rowCount = 0 THEN "notFound" ELSE "found"]]
     /\ UNCHANGED <<variant, students_seq, attendance_seq, monthly_accounts_seq,
                    rent_payments_seq, extra_food_seq, clock, response>>

\* BEGIN, a DELETE or COMMIT throws: control passes to the catch block
PdThrow(p) ==
  LET q == inflight[p]
  IN /\ q.pc \in {"pdBegin", "pdStatement", "pdCommit"}
     /\ inflight' = [inflight EXCEPT ![p] = [q EXCEPT !.pc = "pdRollback"]]
     /\ PdFrame

\* await client.query("ROLLBACK")
PdRollback(p) ==
  LET q == inflight[p]
  IN /\ q.pc = "pdRollback"
     /\ inflight' = [inflight EXCEPT ![p] =
                       [q EXCEPT !.pc = "pdRespond", !.tx = FALSE, !.path = "rolledBack",
                                 !.deleted = [t \in 1..5 |-> {}]]]
     /\ PdFrame

\* ROLLBACK itself throws: the rest of the catch block is skipped, finally still runs;
\* whether the server still holds the transaction depends on the failure
PdRollbackThrows(p) ==
  LET q == inflight[p]
  IN /\ q.pc = "pdRollback"
     /\ \E open \in BOOLEAN :
          inflight' = [inflight EXCEPT ![p] =
                         [q EXCEPT !.pc = "pdRelease", !.tx = q.tx /\ open,
                                   !.path = "rollbackThrew",
                                   !.deleted = [t \in 1..5 |-> {}]]]
     /\ PdFrame

\* res.json({success:false, "Student not found"}) / res.json({success:true}) /
\* res.status(500).json(..)
PdRespond(p) ==
  LET q == inflight[p]
  IN /\ q.pc = "pdRespond"
     /\ response' =
          IF q.path = "rolledBack"
            THEN Resp("permanentDelete", 500, FALSE, "DB error permanent deleting student", <<>>)
          ELSE IF q.path = "notFound"
            THEN Resp("permanentDelete", 200, FALSE, "Student not found", <<>>)
          ELSE Resp("permanentDelete", 200, TRUE, "", <<>>)
     /\ inflight' = [inflight EXCEPT ![p] = [q EXCEPT !.pc = "pdRelease", !.sent = q.sent + 1]]
     /\ UNCHANGED <<variant, ledgers, students, students_seq, attendance, attendance_seq,
                    monthly_accounts, monthly_accounts_seq, clock>>

\* finally { client.release() }
PdRelease(p) ==
  LET q == inflight[p]
  IN /\ q.pc = "pdRelease"
     /\ inflight' = [inflight EXCEPT ![p] =
                       [q EXCEPT !.pc = "pdDone", !.client = FALSE,
                                 !.released = q.released + 1]]
     /\ PdFrame

\* the handler has returned; the next request may be served
PdEnd(p) ==
  /\ inflight[p].pc = "pdDone"
  /\ inflight' = [inflight EXCEPT ![p] = Idle]
  /\ PdFrame

(* --------------- eb-batch requests, statement by statement -------------- *)
\* validation, roster SELECT .. ORDER BY id and the share; an empty room is answered at once
EbStart(p, h, r, d, eb_total) ==
  LET roster == ActiveInRoom(students, h, r)
  IN /\ inflight[p].pc = "idle"
     /\ BatchValidation(h, r, d) = "ok"
     /\ IF roster = {}
          THEN /\ response' = EbEmptyRoom
               /\ inflight' = inflight
          ELSE /\ inflight' = [inflight EXCEPT ![p] =
                       [pc |-> "ebSelect", hostel_code |-> h, room |-> r, date |-> d,
                        ebTotal |-> ParseInt(eb_total),
                        ebShare |-> EbShare(ParseInt(eb_total), Cardinality(roster)),
                        students |-> ById(roster), i |-> 1, existing |-> {}]]
               /\ response' = response
     /\ UNCHANGED <<variant, ledgers, students, students_seq, attendance, attendance_seq,
                    monthly_accounts, monthly_accounts_seq, clock>>

\* const existing = await getAsync(`SELECT id, eb_paid FROM monthly_accounts WHERE .. LIMIT 1`)
EbSelect(p) ==
  LET q == inflight[p]
  IN /\ q.pc = "ebSelect" /\ q.i <= Len(q.students)
     /\ LET found == ExistingMa(monthly_accounts, q.hostel_code, q.students[q.i], q.date)
        IN \E e \in (IF found = {} THEN {{}}
                     ELSE {{[id |-> m.id, eb_paid |-> m.eb_paid]} : m \in found}) :
             inflight' = [inflight EXCEPT ![p] = [q EXCEPT !.pc = "ebWrite", !.existing = e]]
     /\ UNCHANGED <<variant, ledgers, students, students_seq, attendance, attendance_seq,
                    monthly_accounts, monthly_accounts_seq, clock, response>>

\* if (existing) await runAsync(UPDATE ..) else await runAsync(INSERT ..)
EbWrite(p) ==
  LET q == inflight[p]
  IN /\ q.pc = "ebWrite"
     /\ IF q.existing # {}
          THEN /\ monthly_accounts' =
                    UNION {UpdateMaEb(monthly_accounts, e, q.room, q.ebShare) : e \in q.existing}
               /\ monthly_accounts_seq' = monthly_accounts_seq
          ELSE /\ monthly_accounts' =
                    InsertMaEb(monthly_accounts, monthly_accounts_seq, q.hostel_code,
                               q.students[q.i], q.date, q.room, q.ebShare)
               /\ monthly_accounts_seq' = monthly_accounts_seq + 1
     /\ inflight' = [inflight EXCEPT ![p] = [q EXCEPT !.pc = "ebSelect", !.i = q.i + 1,
                                                      !.existing = {}]]
     /\ UNCHANGED <<variant, ledgers, students, students_seq, attendance, attendance_seq,
                    clock, response>>

\* res.json({ success: true, room, date, total_students, eb_total, eb_share })
EbRespond(p) ==
  LET q == inflight[p]
  IN /\ q.pc = "ebSelect" /\ q.i > Len(q.students)
     /\ response' = Resp("ebBatch", 200, TRUE, "",
                         <<q.room, q.date, Len(q.students), q.ebTotal, q.ebShare>>)
     /\ inflight' = [inflight EXCEPT ![p] = Idle]
     /\ UNCHANGED <<variant, ledgers, students, students_seq, attendance, attendance_seq,
                    monthly_accounts, monthly_accounts_seq, clock>>

\* the roster SELECT rejects: catch (e) { res.status(500).json(..) }, nothing was written
EbStartThrows(h, r, d) ==
  /\ BatchValidation(h, r, d) = "ok"
  /\ response' = Resp("ebBatch", 500, FALSE, "DB error saving EB batch", <<>>)
  /\ UNCHANGED <<variant, ledgers, students, students_seq, attendance, attendance_seq,
                 monthly_accounts, monthly_accounts_seq, clock, inflight>>

\* the SELECT, the UPDATE or the INSERT of the current pass rejects: control leaves the loop
\* for catch (e) { res.status(500).json(..) }; the rows written by the earlier passes stay
\* (each statement is committed on its own) and the statement is not issued again
EbThrow(p) ==
  LET q == inflight[p]
  IN /\ q.pc \in {"ebSelect", "ebWrite"} /\ q.i <= Len(q.students)
     /\ response' = Resp("ebBatch", 500, FALSE, "DB error saving EB batch", <<>>)
     /\ inflight' = [inflight EXCEPT ![p] = Idle]
     /\ UNCHANGED <<variant, ledgers, students, students_seq, attendance, attendance_seq,
                    monthly_accounts, monthly_accounts_seq, clock>>

(* ---------------- the statements of a request in flight ---------------- *)
\* the statements of an attendance batch in flight, at most maxRows rows ever inserted
AttSteps(p, maxRows) ==
  \/ AttSelect(p) /\ Recorded
  \/ AttWrite(p) /\ attendance_seq' <= maxRows + 1 /\ Recorded
  \/ AttRespond(p) /\ Recorded

\* the statements of an eb-batch in flight, at most maxRows rows ever inserted
EbSteps(p, maxRows) ==
  \/ EbSelect(p) /\ Recorded
  \/ EbWrite(p) /\ monthly_accounts_seq' <= maxRows + 1 /\ Recorded
  \/ EbRespond(p) /\ Recorded

\* the statements of a permanent delete in flight, none of them rejected: the five DELETEs
\* and the answer (SQLite); BEGIN, the five DELETEs, COMMIT, the answer, release (Postgres)
PermSteps(p) ==
  \/ PsStatement(p) /\ Recorded
  \/ PsRespond(p) /\ Recorded
  \/ PdBegin(p) /\ Recorded
  \/ PdStatement(p) /\ Recorded
  \/ PdCommit(p) /\ Recorded
  \/ PdRespond(p) /\ Recorded
  \/ PdRelease(p) /\ Recorded
  \/ PdEnd(p) /\ Recorded

\* a statement of a permanent delete in flight is rejected, and what follows in the handler
PermFails(p) ==
  \/ PsThrow(p) /\ Recorded
  \/ PdThrow(p) /\ Recorded
  \/ PdRollback(p) /\ Recorded
  \/ PdRollbackThrows(p) /\ Recorded

(* ------------------ attendance requests, a changing roster ------------------- *)
AttStudentIds == 1..MaxAttStudents
AttRowIds == 1..MaxAttRows
AbsentSets == {{}, {1}}
InvalidBatches == {<<"", "101", "2024-01">>, <<"H1", "", "2024-01">>, <<"H1", "101", "">>}

\* the requests arrive at any time, also between the statements of a request in flight
NextAtt ==
  \/ \E r \in Rooms :
       students_seq <= MaxAttStudents /\ CreateStudent("H1", "Asha", r, "AC", "p1", NoPhoto) /\ Recorded
  \/ \E id \in AttStudentIds : UpdateStudent(id, "H1", "Asha", "102", "AC", "p1") /\ Recorded
  \/ \E id \in AttStudentIds : UsSelect(2, id, "H1", "Asha", "102", "AC", "p1", NoPhoto) /\ Recorded
  \/ \E id \in AttStudentIds : SoftDelete(id) /\ Recorded
  \/ \E id \in AttStudentIds : Restore(id) /\ Recorded
  \/ \E b \in InvalidBatches : AttendanceBatchInvalid(b[1], b[2], b[3], {}) /\ Recorded
  \/ \E d \in Dates, ab \in AbsentSets : AttStart(1, "H1", "101", d, ab) /\ Recorded
  \/ \E id \in AttRowIds, d \in Dates,
          st \in {Present, <<32>> \o Absent, Late} :
       UpdateAttendance(id, d, "101", st) /\ Recorded
  \/ \E id \in AttRowIds : DeleteAttendance(id) /\ Recorded
  \/ UsUpdate(2) /\ Recorded
  \/ AttSteps(1, MaxAttRows)

SpecAtt == Init /\ [][NextAtt]_vars

(* C1: a served attendance batch leaves, for every active student of the   *)
(* room, exactly one attendance row for (hostel_code, date, room_number,   *)
(* student_id), with the status that call computed (so a later call with   *)
(* other absent_ids sets the statuses of that later call); and serving the *)
(* same request once more on the store it left, roster unchanged, leaves   *)
(* the attendance table and its id counter as they are. The requests are    *)
(* served one after another.                                               *)
C1_Post(h, r, d, ab) ==
  LET after == [rows |-> attendance', seq |-> attendance_seq']
  IN /\ \A sid \in ActiveInRoom(students', h, r) :
          LET rows == ExistingAtt(attendance', h, d, r, sid)
          IN /\ Cardinality(rows) = 1
             /\ \A a \in rows : a.status = StatusFor(ab, sid)
     /\ AttBatchResults(students', after, h, r, d, ab) = {after}

C1_AttendanceBatchIdempotent ==
  [][\A p \in Procs :
       (AttRespond(p) /\ serial') =>
         C1_Post(inflight[p].hostel_code, inflight[p].room, inflight[p].date,
                 inflight[p].absentSet)]_vars

(* ---------------- monthly account requests, a changing roster ---------------- *)
EbStudentIds == 1..MaxEbStudents
EbTotals == {0, 3}
MaIds == 1..MaxMaRows

\* the requests arrive at any time, also between the statements of a request in flight
NextEb ==
  \/ students_seq <= MaxEbStudents /\ CreateStudent("H1", "Asha", "101", "AC", "p1", NoPhoto) /\ Recorded
  \/ \E id \in EbStudentIds : SoftDelete(id) /\ Recorded
  \/ \E b \in InvalidBatches : EbBatchInvalid(b[1], b[2], b[3], 0) /\ Recorded
  \/ \E total \in EbTotals : EbStart(1, "H1", "101", "2024-01", total) /\ Recorded
  \/ \E h \in {"H1", ""}, d \in {"2024-01", ""} :
       /\ monthly_accounts_seq <= MaxMaRows
       /\ CreateMonthlyAccount(1, h, d, "101", 1, 0, 1, 1, 0) /\ Recorded
  \/ \E id \in MaIds, d \in Dates : UpdateMonthlyAccount(id, d, "102", 1, 0, 1, 1, 0) /\ Recorded
  \/ \E id \in MaIds : DeleteMonthlyAccount(id) /\ Recorded
  \/ EbSteps(1, MaxMaRows)

\* the monthly account handlers are the same in both variants
InitEb == Init /\ variant = "pg"

SpecEb == InitEb /\ [][NextEb]_vars

(* C3: in every state reached by eb-batch, POST monthly-account, PUT and    *)
(* DELETE monthly_accounts requests served one after another, the           *)
(* monthly_accounts table holds at most one row per (hostel_code,           *)
(* student_id, date).                                                       *)
C3_AtMostOneMonthlyRowPerKey ==
  serial =>
    \A a, b \in monthly_accounts :
      (a.hostel_code = b.hostel_code /\ a.student_id = b.student_id /\ a.date = b.date)
        => a.id = b.id

(* C4: an EB batch for a room with n >= 1 active students and a             *)
(* non-negative integer eb_total computes eb_share as the floor of          *)
(* eb_total / n (n * eb_share <= eb_total < n * eb_share + n; 33 for n = 3  *)
(* and eb_total = 100), the write of each pass leaves a monthly_accounts    *)
(* row of that student for the date with that eb_share, and the answer      *)
(* carries total_students = n, eb_total and eb_share. A pass whose selected *)
(* row another request has deleted since is not counted against the batch.  *)
C4_Roster(p, h, r, total) ==
  LET roster == ActiveInRoom(students, h, r)
      n == Cardinality(roster)
      q == inflight'[p]
  IN roster # {} =>
       /\ Len(q.students) = n
       /\ {q.students[i] : i \in 1..n} = roster
       /\ q.ebTotal = total
       /\ n * q.ebShare <= total /\ total - n * q.ebShare < n

C4_Write(q) ==
  (\A e \in q.existing : \E m \in monthly_accounts : m.id = e.id)
    => \E m \in ExistingMa(monthly_accounts', q.hostel_code, q.students[q.i], q.date) :
         m.eb_share = q.ebShare

C4_Answer(q) ==
  /\ response'.code = 200 /\ response'.success
  /\ response'.data = <<q.room, q.date, Len(q.students), q.ebTotal, q.ebShare>>

C4_EbShareIsFloor ==
  [][/\ EbShare(100, 3) = 33
     /\ \A p \in Procs :
          /\ \A total \in EbTotals :
               EbStart(p, "H1", "101", "2024-01", total) => C4_Roster(p, "H1", "101", total)
          /\ EbWrite(p) => C4_Write(inflight[p])
          /\ EbRespond(p) => C4_Answer(inflight[p])]_vars

(* C7: an EB batch for a room without an active student (no student at all, *)
(* or only soft-deleted ones) answers 200 with success false and the        *)
(* message "No active students in this room.", and leaves monthly_accounts  *)
(* as it was.                                                               *)
C7_EmptyRoomIsBusinessFailure ==
  [][\A p \in Procs, total \in EbTotals :
       (/\ ActiveInRoom(students, "H1", "101") = {}
        /\ EbStart(p, "H1", "101", "2024-01", total)) =>
         /\ response'.op = "ebBatch"
         /\ response'.code = 200 /\ response'.success = FALSE
         /\ response'.message = "No active students in this room."
         /\ monthly_accounts' = monthly_accounts
         /\ monthly_accounts_seq' = monthly_accounts_seq
         /\ inflight' = inflight]_vars

C7_Witness ==
  /\ response.op = "ebBatch" /\ response.code = 200 /\ ~response.success
  /\ response.message = "No active students in this room."
  /\ students # {} /\ \A s \in students : s.is_deleted = 1
  /\ monthly_accounts # {}

(* C8: serving the same EB batch once more on the store a served batch      *)
(* left (same hostel_code, room, date and eb_total, roster and payments     *)
(* unchanged) leaves monthly_accounts and its id counter as they are: no    *)
(* further row, the same eb_share, eb_paid and eb_remaining per student.    *)
(* The requests are served one after another.                               *)
C8_EbBatchIdempotent ==
  [][\A p \in Procs :
       (EbRespond(p) /\ serial') =>
         LET after == [rows |-> monthly_accounts', seq |-> monthly_accounts_seq']
         IN EbBatchResults(students', after, inflight[p].hostel_code, inflight[p].room,
                           inflight[p].date, inflight[p].ebTotal) = {after}]_vars

(* ----------------- interleaved attendance batch requests ---------------- *)
NextAttConc ==
  \/ students_seq <= MaxConcStudents /\ CreateStudent("H1", "Asha", "101", "AC", "p1", NoPhoto) /\ Recorded
  \/ \E p \in Procs, d \in Dates, ab \in AbsentSets : AttStart(p, "H1", "101", d, ab) /\ Recorded
  \/ \E p \in Procs : AttSelect(p) /\ Recorded
  \/ \E p \in Procs : AttWrite(p) /\ attendance_seq' <= MaxConcRows + 1 /\ Recorded
  \/ \E p \in Procs : AttRespond(p) /\ Recorded

SpecAttConc == Init /\ [][NextAttConc]_vars

(* C2: in every reachable state, under every interleaving of the           *)
(* statements of concurrent attendance batch requests, the attendance      *)
(* table holds at most one row per (hostel_code, date, room_number,        *)
(* student_id).                                                            *)
C2_AtMostOneAttendanceRowPerKey ==
  \A a, b \in attendance :
    (a.hostel_code = b.hostel_code /\ a.date = b.date /\ a.room_number = b.room_number
       /\ a.student_id = b.student_id) => a.id = b.id

(* ------------------------- student lifecycle ---------------------------- *)
LifeStudentIds == 1..MaxLifeStudents

\* the requests arrive at any time; the soft delete (its stamp read, then its UPDATE, then
\* its answer), the SQLite edit and the SQLite permanent delete run their statements
\* between the statements of the other requests, while time passes
NextLife ==
  \/ Tick /\ Recorded
  \/ \E h \in Hostels :
       students_seq <= MaxLifeStudents /\ CreateStudent(h, "Asha", "101", "AC", "p1", NoPhoto) /\ Recorded
  \/ \E id \in LifeStudentIds : UpdateStudent(id, "H2", "Ravi", "102", "NonAC", "p2") /\ Recorded
  \/ \E id \in LifeStudentIds, photo \in {NoPhoto, "/uploads/a.jpg"} :
       UsSelect(1, id, "H2", "Ravi", "102", "NonAC", "p2", photo) /\ Recorded
  \/ UsUpdate(1) /\ Recorded
  \/ \E id \in LifeStudentIds : SdStart(2, id) /\ Recorded
  \/ SdUpdate(2) /\ Recorded
  \/ SdRespond(2) /\ Recorded
  \/ SdEnd(2) /\ Recorded
  \/ \E id \in LifeStudentIds : Restore(id) /\ Recorded
  \/ \E id \in LifeStudentIds : PsStart(1, id) /\ Recorded
  \/ PsStatement(1) /\ Recorded
  \/ PsRespond(1) /\ Recorded

SpecLife == Init /\ [][NextLife]_vars

(* C9: a soft delete reads the current time when it is handled; its UPDATE, *)
(* on a student that is active then, sets is_deleted = 1 and deleted_at to  *)
(* the time read on that row alone, and the request answers success; on a   *)
(* student that is already soft-deleted or does not exist the UPDATE leaves *)
(* the students table unchanged, so the earlier deleted_at stays, and the   *)
(* request answers success false.                                           *)
C9_Post(p) ==
  LET q == inflight[p]
  IN IF \E s \in students : s.id = q.id /\ s.is_deleted = 0
       THEN /\ inflight'[p].rowCount > 0
            /\ \A s \in students :
                 IF s.id = q.id
                   THEN \E t \in students' :
                          /\ t.id = q.id /\ t.is_deleted = 1 /\ t.deleted_at = q.now
                          /\ [t EXCEPT !.is_deleted = 0, !.deleted_at = NULL] = s
                   ELSE s \in students'
            /\ Cardinality(students') = Cardinality(students)
       ELSE /\ inflight'[p].rowCount = 0
            /\ students' = students

C9_Answer(p) ==
  /\ response'.op = "softDelete" /\ response'.code = 200
  /\ response'.success = (inflight[p].rowCount > 0)
  /\ ~response'.success => response'.message = "Student not found (or already deleted)"
  /\ students' = students

C9_SoftDeleteGuarded ==
  [][\A p \in Procs :
       /\ \A id \in LifeStudentIds :
            SdStart(p, id) => (inflight'[p].now = clock /\ students' = students)
       /\ SdUpdate(p) => (inflight[p].now <= clock /\ C9_Post(p))
       /\ (SdRespond(p) /\ inflight[p].op = "softDelete") => C9_Answer(p)]_vars

C9_Witness ==
  /\ response.op = "softDelete" /\ ~response.success
  /\ inflight[2].pc = "sdDone" /\ inflight[2].rowCount = 0 /\ inflight[2].now = clock
  /\ students_seq > MaxLifeStudents
  /\ \A s \in students : s.is_deleted = 1 /\ s.deleted_at # NULL /\ s.deleted_at < clock

(* C10: a restore served on the store a successful soft delete left gives   *)
(* back the students table of before the soft delete: the row has           *)
(* is_deleted = 0 and deleted_at = NULL again and every other field as      *)
(* before, the student is in the active roster of the hostel and not in     *)
(* the old-students list, where the soft delete had put it.                 *)
C10_Post(id) ==
  LET back == RestoreRows(students', id)
  IN /\ back = students
     /\ \A s \in students' : s.id = id =>
          /\ id \in OldList(students', s.hostel_code)
          /\ id \notin ActiveList(students', s.hostel_code)
          /\ id \in ActiveList(back, s.hostel_code)
          /\ id \notin OldList(back, s.hostel_code)
     /\ \A s \in back : s.id = id => (s.is_deleted = 0 /\ s.deleted_at = NULL)

C10_RestoreStep(id) ==
  /\ students' = RestoreRows(students, id)
  /\ \A s \in students' : s.id = id =>
       /\ s.is_deleted = 0 /\ s.deleted_at = NULL
       /\ id \in ActiveList(students', s.hostel_code)
       /\ id \notin OldList(students', s.hostel_code)

C10_SoftDeleteRestoreRoundTrip ==
  [][/\ \A p \in Procs :
          (SdUpdate(p) /\ inflight'[p].rowCount > 0) => C10_Post(inflight[p].id)
     /\ \A id \in LifeStudentIds :
          (response'.op = "restore" /\ response'.success /\ Restore(id)) => C10_RestoreStep(id)]_vars

C10_Witness ==
  /\ response.op = "softDelete" /\ response.success /\ clock > 1
  /\ \E s \in students :
       /\ s.is_deleted = 1 /\ s.deleted_at < clock /\ s.name = "Ravi"
       /\ s.id \in OldList(students, s.hostel_code)
       /\ s.id \in ActiveList(RestoreRows(students, s.id), s.hostel_code)
       /\ \A t \in RestoreRows(students, s.id) : t.id = s.id => t.deleted_at = NULL

(* C11: a restore of an existing student, soft-deleted or active, answers   *)
(* success and leaves that row with is_deleted = 0 and deleted_at = NULL    *)
(* and every other row as it was; a second restore on the store it left     *)
(* matches the row again and changes nothing; a restore of an id that does  *)
(* not exist answers success false with "Student not found" and leaves the  *)
(* students table unchanged.                                                *)
C11_Post(id) ==
  IF \E s \in students : s.id = id
    THEN /\ response'.code = 200 /\ response'.success
         /\ \A s \in students :
              IF s.id = id
                THEN [s EXCEPT !.is_deleted = 0, !.deleted_at = NULL] \in students'
                ELSE s \in students'
         /\ Cardinality(students') = Cardinality(students)
         /\ RestoreMatched(students', id) # {}
         /\ RestoreRows(students', id) = students'
    ELSE /\ response'.code = 200 /\ response'.success = FALSE
         /\ response'.message = "Student not found"
         /\ students' = students

C11_RestoreIdempotent ==
  [][\A id \in LifeStudentIds :
       (response'.op = "restore" /\ Restore(id)) => C11_Post(id)]_vars

C11_Witness ==
  /\ response.op = "restore" /\ response.success /\ clock > 1
  /\ Cardinality(students) = MaxLifeStudents
  /\ \A s \in students : s.is_deleted = 0 /\ s.deleted_at = NULL

(* C18: in every reachable state each student row of hostel h is in exactly *)
(* one of the two rosters of h, the active list when is_deleted = 0 and the *)
(* old list when is_deleted = 1; a soft-deleted student is in no by-room    *)
(* and no by-roomtype list and is not returned by fetch-by-id, unless       *)
(* includeDeleted = 1 is given, which returns it.                           *)
C18_RostersPartitionStudents ==
  \A s \in students :
    LET h == s.hostel_code
    IN /\ (s.id \in ActiveList(students, h)) # (s.id \in OldList(students, h))
       /\ s.is_deleted = 0 => s.id \in ActiveList(students, h)
       /\ s.is_deleted = 1 =>
            /\ s.id \in OldList(students, h)
            /\ \A r \in Rooms : s.id \notin ByRoom(students, h, r)
            /\ \A t \in {"AC", "NonAC"} : s.id \notin ByRoomType(students, h, t)
            /\ FetchById(students, s.id, FALSE) = {}
            /\ FetchById(students, s.id, TRUE) = {s}

C18_Witness ==
  /\ response.op = "softDelete" /\ response.success
  /\ \E s, t \in students :
       /\ s.hostel_code = t.hostel_code /\ s.room_number = t.room_number
       /\ s.is_deleted = 0 /\ t.is_deleted = 1

(* ------------- ledgers, soft delete and permanent delete ---------------- *)
PermStudentIds == 1..MaxPermStudents

\* rent and extra food entries are also posted for an id that is not registered; the
\* k-th entry of a ledger is posted for id k, the extra food entry of an id after its rent
\* entry
PermLedgerIds == 1..(MaxPermStudents + 1)

\* the requests arrive at any time, also between the statements of a batch and of the
\* permanent delete, none of them rejected
NextPerm ==
  \/ students_seq <= MaxPermStudents /\ CreateStudent("H1", "Asha", "101", "AC", "p1", NoPhoto) /\ Recorded
  \/ \E id \in PermStudentIds : SoftDelete(id) /\ Recorded
  \/ \E sid \in PermLedgerIds :
       /\ sid = rent_payments_seq
       /\ AddRent(sid, "2024-01", 1, 0) /\ Recorded
  \/ \E sid \in PermLedgerIds :
       /\ sid = extra_food_seq
       /\ RowsOfStudent(rent_payments, sid) # {}
       /\ AddExtraFood(sid, "2024-01", 1, 0) /\ Recorded
  \/ AttStart(2, "H1", "101", "2024-01", {1}) /\ Recorded
  \/ EbStart(2, "H1", "101", "2024-01", 3) /\ Recorded
  \/ \E id \in PermLedgerIds : PsStart(1, id) /\ Recorded
  \/ \E id \in PermLedgerIds : PdConnect(1, id) /\ Recorded
  \/ AttSteps(2, MaxPermStudents)
  \/ EbSteps(2, MaxPermStudents)
  \/ PermSteps(1)

SpecPerm == Init /\ [][NextPerm]_vars

\* the answer of a permanent delete in flight on p is sent in this step
PermAnswers(p) == PsRespond(p) \/ PdRespond(p)

(* C12: after a permanent delete that answered success, no students row has *)
(* the id, no attendance, extra_food, rent_payments or monthly_accounts row *)
(* has it as student_id (so the per-student queries and fetch-by-id return  *)
(* nothing for it), and the rows of every other student are as before; no   *)
(* other request is in flight.                                              *)
C12_Post(id, before) ==
  /\ FetchById(students', id, TRUE) = {}
  /\ students' = {s \in before.students : s.id # id}
  /\ \A t \in {"attendance", "extra_food", "rent_payments", "monthly_accounts"} :
       /\ RowsOfStudent(Store'[t], id) = {}
       /\ Store'[t] = {x \in before[t] : x.student_id # id}

C12_PermanentDeleteRemovesAll ==
  [][\A p \in Procs :
       (PermAnswers(p) /\ response'.success /\ serial') => C12_Post(inflight[p].id, inflight[p].before)]_vars

C12_Witness ==
  /\ response.op = "permanentDelete" /\ response.success
  /\ students = {} /\ students_seq = 2
  /\ attendance = {} /\ attendance_seq = 2
  /\ monthly_accounts = {} /\ monthly_accounts_seq = 2
  /\ {x.student_id : x \in rent_payments} = {2} /\ rent_payments_seq = 3
  /\ {x.student_id : x \in extra_food} = {2} /\ extra_food_seq = 3

(* ------------- permanent delete with a failing statement --------------- *)
\* the requests arrive at any time; a statement of the permanent delete may be rejected
\* by the storage
NextPermErr ==
  \/ students_seq <= 1 /\ CreateStudent("H1", "Asha", "101", "AC", "p1", NoPhoto) /\ Recorded
  \/ rent_payments_seq <= 1 /\ AddRent(1, "2024-01", 1, 0) /\ Recorded
  \/ extra_food_seq <= 1 /\ AddExtraFood(1, "2024-01", 1, 0) /\ Recorded
  \/ AttStart(2, "H1", "101", "2024-01", {1}) /\ Recorded
  \/ EbStart(2, "H1", "101", "2024-01", 3) /\ Recorded
  \/ PsStart(1, 1) /\ Recorded
  \/ PdConnect(1, 1) /\ Recorded
  \/ AttSteps(2, 1)
  \/ EbSteps(2, 1)
  \/ PermSteps(1)
  \/ PermFails(1)

SpecPermErr == Init /\ [][NextPermErr]_vars

(* C13: in both variants, a permanent delete whose k-th delete statement    *)
(* fails answers HTTP 500 and leaves the five tables exactly as they were,  *)
(* no other request being in flight.                                        *)
C13_PermanentDeleteAllOrNothing ==
  [][\A p \in Procs :
       ((PsThrow(p) \/ PdRespond(p)) /\ response'.code = 500 /\ serial')
         => /\ response'.op = "permanentDelete" /\ response'.success = FALSE
            /\ Store' = inflight[p].before]_vars

(* the student routes and the four history tables, without permanent delete *)
\* the requests arrive at any time, also between the statements of the two batches
NextHist ==
  \/ students_seq <= MaxPermStudents /\ CreateStudent("H1", "Asha", "101", "AC", "p1", NoPhoto) /\ Recorded
  \/ \E id \in PermStudentIds : SoftDelete(id) /\ Recorded
  \/ \E id \in PermStudentIds : Restore(id) /\ Recorded
  \/ \E sid \in PermLedgerIds :
       /\ rent_payments_seq <= MaxPermStudents + 1
       /\ RowsOfStudent(rent_payments, sid) = {}
       /\ AddRent(sid, "2024-01", 1, 0) /\ Recorded
  \/ \E sid \in PermLedgerIds :
       /\ extra_food_seq <= MaxPermStudents + 1
       /\ RowsOfStudent(rent_payments, sid) # {} /\ RowsOfStudent(extra_food, sid) = {}
       /\ AddExtraFood(sid, "2024-01", 1, 0) /\ Recorded
  \/ AttStart(1, "H1", "101", "2024-01", {1}) /\ Recorded
  \/ AttSteps(1, MaxPermStudents)
  \/ EbStart(2, "H1", "101", "2024-01", 3) /\ Recorded
  \/ EbSteps(2, MaxPermStudents)

SpecHist == Init /\ [][NextHist]_vars

C20_Post(id) ==
  /\ \A t \in {"attendance", "extra_food", "rent_payments", "monthly_accounts"} :
       /\ Store'[t] = Store[t]
       /\ RowsOfStudent(Store'[t], id) = RowsOfStudent(Store[t], id)
  /\ {s \in students' : s.id # id} = {s \in students : s.id # id}
  /\ \A s \in students : s.id = id =>
       \E t \in students' :
         [t EXCEPT !.is_deleted = s.is_deleted, !.deleted_at = s.deleted_at] = s
  /\ Cardinality(students') = Cardinality(students)

(* C20: a soft delete and a restore change nothing but is_deleted and       *)
(* deleted_at of the addressed student row: every rent_payments,            *)
(* extra_food, attendance and monthly_accounts row and every other student  *)
(* row is as before, and the per-student queries of the addressed student   *)
(* return what they returned before.                                        *)
C20_SoftDeleteRestoreKeepHistory ==
  [][\A id \in PermStudentIds :
       (response'.op \in {"softDelete", "restore"} /\ (SoftDelete(id) \/ Restore(id)))
         => C20_Post(id)]_vars

C20_Witness ==
  /\ response.op = "softDelete" /\ response.success
  /\ \E s \in students :
       /\ s.is_deleted = 1
       /\ \A t \in {"attendance", "extra_food", "rent_payments", "monthly_accounts"} :
            RowsOfStudent(Store[t], s.id) # {}

(* --------------- requests that address a row by its id ------------------ *)
RowIds == {1, 2}

\* rows ever inserted into rent_payments, extra_food, attendance and monthly_accounts
MaxIdRows == 1

IdRowsEver ==
  (rent_payments_seq - 1) + (extra_food_seq - 1) + (attendance_seq - 1) + (monthly_accounts_seq - 1)

\* the requests arrive at any time, also between the statements of the attendance batch,
\* of the SQLite edit and of the permanent delete, none of them rejected; the rent entry is
\* posted for an id that is never registered
NextIds ==
  \/ students_seq <= 1 /\ CreateStudent("H1", "Asha", "101", "AC", "p1", NoPhoto) /\ Recorded
  \/ IdRowsEver < MaxIdRows /\ AddRent(2, "2024-01", 1, 0) /\ Recorded
  \/ IdRowsEver < MaxIdRows /\ AddExtraFood(1, "2024-01", 1, 0) /\ Recorded
  \/ AttStart(1, "H1", "101", "2024-01", {}) /\ Recorded
  \/ IdRowsEver < MaxIdRows /\ CreateMonthlyAccount(1, "H1", "2024-01", "101", 1, 0, 1, 1, 0) /\ Recorded
  \/ \E id \in RowIds : UpdateStudent(id, "H1", "Asha", "102", "AC", "p1") /\ Recorded
  \/ \E id \in RowIds : UsSelect(2, id, "H1", "Asha", "102", "AC", "p1", NoPhoto) /\ Recorded
  \/ \E id \in RowIds : SoftDelete(id) /\ Recorded
  \/ \E id \in RowIds : Restore(id) /\ Recorded
  \/ \E id \in RowIds : PsStart(2, id) /\ Recorded
  \/ \E id \in RowIds : PdConnect(2, id) /\ Recorded
  \/ \E id \in RowIds : UpdateRent(id, "2024-02", 1, 0) /\ Recorded
  \/ \E id \in RowIds : DeleteRent(id) /\ Recorded
  \/ \E id \in RowIds : UpdateExtraFood(id, "2024-02", 1, 0) /\ Recorded
  \/ \E id \in RowIds : DeleteExtraFood(id) /\ Recorded
  \/ \E id \in RowIds : UpdateAttendance(id, "2024-02", "101", Absent) /\ Recorded
  \/ \E id \in RowIds : DeleteAttendance(id) /\ Recorded
  \/ \E id \in RowIds : UpdateMonthlyAccount(id, "2024-02", "101", 1, 0, 1, 1, 0) /\ Recorded
  \/ \E id \in RowIds : DeleteMonthlyAccount(id) /\ Recorded
  \/ AttSelect(1) /\ Recorded
  \/ AttWrite(1) /\ IdRowsEver' <= MaxIdRows /\ Recorded
  \/ AttRespond(1) /\ Recorded
  \/ UsUpdate(2) /\ Recorded
  \/ PermSteps(2)

SpecIds == Init /\ [][NextIds]_vars

C17_NotFound == response'.success = FALSE /\ response'.code = 200 /\ Store' = Store

HasId(rows, id) == \E x \in rows : x.id = id

(* C17: in both variants, an edit, soft delete, restore or permanent delete *)
(* of a student, and an edit or delete of a rent, extra food, attendance or *)
(* monthly account row, addressed to an id that does not exist, answers     *)
(* HTTP 200 with success false and leaves the five tables unchanged (for    *)
(* the permanent delete: as its first statement found them, no other        *)
(* request being in flight).                                                *)
C17_UnknownIdIsBusinessFailure ==
  [][/\ \A id \in RowIds :
          /\ (~HasId(students, id) /\
               \/ UpdateStudent(id, "H1", "Asha", "102", "AC", "p1")
               \/ SoftDelete(id) \/ Restore(id)) => C17_NotFound
          /\ (~HasId(rent_payments, id) /\
               (UpdateRent(id, "2024-02", 1, 0) \/ DeleteRent(id))) => C17_NotFound
          /\ (~HasId(extra_food, id) /\
               (UpdateExtraFood(id, "2024-02", 1, 0) \/ DeleteExtraFood(id))) => C17_NotFound
          /\ (~HasId(attendance, id) /\
               (UpdateAttendance(id, "2024-02", "101", Absent) \/ DeleteAttendance(id)))
               => C17_NotFound
          /\ (~HasId(monthly_accounts, id) /\
               (UpdateMonthlyAccount(id, "2024-02", "101", 1, 0, 1, 1, 0)
                  \/ DeleteMonthlyAccount(id))) => C17_NotFound
     /\ \A p \in Procs :
          /\ (UsUpdate(p) /\ ~HasId(students, inflight[p].id)) => C17_NotFound
          /\ (PermAnswers(p) /\ serial' /\ ~HasId(inflight[p].before.students, inflight[p].id))
               => /\ response'.success = FALSE /\ response'.code = 200
                  /\ Store' = inflight[p].before]_vars

(* ------------------- validation of the batch requests ------------------- *)
MaxValStudents == 1

ValInputs == {b \in {"", "H1"} \X {"", "101"} \X {"", "2024-01"} : b # <<"H1", "101", "2024-01">>}

\* the requests arrive at any time, also between the statements of the two batches
NextVal ==
  \/ students_seq <= MaxValStudents /\ CreateStudent("H1", "Asha", "101", "AC", "p1", NoPhoto) /\ Recorded
  \/ \E id \in 1..MaxValStudents : SoftDelete(id) /\ Recorded
  \/ \E ab \in {{}, {1}} : AttStart(1, "H1", "101", "2024-01", ab) /\ Recorded
  \/ AttSteps(1, MaxValStudents)
  \/ \E e \in EbTotals : EbStart(2, "H1", "101", "2024-01", e) /\ Recorded
  \/ EbSteps(2, MaxValStudents)
  \/ \E b \in ValInputs : AttendanceBatchInvalid(b[1], b[2], b[3], {1}) /\ Recorded
  \/ \E b \in ValInputs : EbBatchInvalid(b[1], b[2], b[3], 3) /\ Recorded

SpecVal == Init /\ [][NextVal]_vars

C14_FirstMissing(b) ==
  IF b[1] = "" THEN "Missing hostel_code"
  ELSE IF b[2] = "" THEN "Missing room" ELSE "Missing date"

C14_Rejected(b) ==
  /\ response'.code = 400
  /\ response'.success = FALSE
  /\ response'.message = C14_FirstMissing(b)
  /\ Store' = Store
  /\ <<students_seq, attendance_seq, monthly_accounts_seq>>'
       = <<students_seq, attendance_seq, monthly_accounts_seq>>

(* C14: an attendance batch or eb-batch request lacking hostel_code, room   *)
(* or date is answered 400 with success false, the message naming the first *)
(* missing field in the order hostel_code, room, date, and no table changes *)
C14_BatchValidationRejects ==
  [][\A b \in ValInputs :
       /\ (response'.op = "attendanceBatch" /\ AttendanceBatchInvalid(b[1], b[2], b[3], {1}))
            => C14_Rejected(b)
       /\ (response'.op = "ebBatch" /\ EbBatchInvalid(b[1], b[2], b[3], 3))
            => C14_Rejected(b)]_vars

C14_Witness ==
  /\ response.code = 400
  /\ response.op = "ebBatch"
  /\ response.message = "Missing room"
  /\ attendance # {}
  /\ monthly_accounts # {}

(* ------------------- attendance rows and their status ------------------- *)
MaxRowStudents == 2
MaxRowAtt == 2

RowStudentIds == 1..MaxRowStudents
RowAttIds == 1..MaxRowAtt
RowPlaces == {<<"H1", "101">>, <<"H2", "101">>}
RowAbsentSets == {{}, {1}, {2, MaxRowStudents + 1}}
\* statuses with white space around the word, each with the word trim() leaves: a space
\* and a vertical tab before and a no-break space after Absent; a tab and a byte order
\* mark before and a line feed, an ogham space mark, a carriage return and a form feed
\* after Present; an em space (U+2003) before and an ideographic space after Present; a
\* line separator and U+202F before and U+205F, a paragraph separator and a hair space
\* (U+200A) after Absent
PaddedStatuses ==
  {<<<<32, 11>> \o Absent \o <<160>>, Absent>>,
   <<<<9, 65279>> \o Present \o <<10, 5760, 13, 12>>, Present>>,
   <<<<8195>> \o Present \o <<12288>>, Present>>,
   <<<<8232, 8239>> \o Absent \o <<8287, 8233, 8202>>, Absent>>}

\* statuses trim() leaves other than the two words: "Late", no status, "present", an
\* e acute (U+00E9) before Absent, a zero width space (U+200B) before Present, a next
\* line control (U+0085) after Absent, and Present with a space inside
OtherStatuses ==
  {Late, <<>>, <<112>> \o Tail(Present), <<233>> \o Absent, <<8203>> \o Present,
   Absent \o <<133>>, <<80, 114, 101, 32, 115, 101, 110, 116>>}

RowStatuses == {ps[1] : ps \in PaddedStatuses} \cup OtherStatuses

\* the requests arrive at any time, also between the statements of a request in flight
NextRow ==
  \/ \E pl \in RowPlaces :
       students_seq <= MaxRowStudents /\ CreateStudent(pl[1], "Asha", pl[2], "AC", "p1", NoPhoto) /\ Recorded
  \/ \E id \in RowStudentIds : SoftDelete(id) /\ Recorded
  \/ \E ab \in RowAbsentSets : AttStart(1, "H1", "101", "2024-01", ab) /\ Recorded
  \/ \E id \in RowAttIds, r \in Rooms, st \in RowStatuses :
       UpdateAttendance(id, "2024-01", r, st) /\ Recorded
  \/ AttSteps(1, MaxRowAtt)

SpecRow == Init /\ [][NextRow]_vars

C15_Roster(h, r) ==
  {s.id : s \in {x \in students : x.hostel_code = h /\ x.room_number = r /\ x.is_deleted = 0}}

C15_InKey(a, h, r, d) == a.hostel_code = h /\ a.room_number = r /\ a.date = d

\* the roster the batch reads: the active students of the hostel and room
C15_Read(p, h, r) ==
  LET q == inflight'[p]
  IN /\ Len(q.students) = Cardinality(C15_Roster(h, r))
     /\ {q.students[i] : i \in 1..Len(q.students)} = C15_Roster(h, r)

\* the write of one pass: it leaves a row of the day of that student in the room with the
\* status of the request, and writes on a row of the day of that student in the room only
C15_Write(q) ==
  LET sid == q.students[q.i]
  IN (\A id \in q.existing : \E a \in attendance : a.id = id)
       => /\ \E a \in attendance' :
               /\ C15_InKey(a, q.hostel_code, q.room, q.date)
               /\ a.student_id = sid
               /\ (a.status = Absent) <=> (sid \in q.absentSet)
               /\ (a.status = Present) <=> (sid \notin q.absentSet)
          /\ \A a \in attendance :
               (a.student_id # sid \/ ~C15_InKey(a, q.hostel_code, q.room, q.date))
                 => a \in attendance'
          /\ \A a \in attendance' \ attendance :
               a.student_id = sid /\ C15_InKey(a, q.hostel_code, q.room, q.date)
          /\ students' = students

C15_Answer(q) ==
  /\ response'.code = 200 /\ response'.success
  /\ response'.data = <<Len(q.students)>>

(* C15: an attendance batch reads the active students of the hostel and     *)
(* room; the write of each pass leaves a row of that day of that student    *)
(* whose status is Absent exactly when the id is in absent_ids and Present  *)
(* otherwise; rows of soft-deleted students, of other rooms or hostels and  *)
(* of ids not in the room are neither created nor changed by any of its     *)
(* writes; total_students is the size of the roster. A pass whose selected  *)
(* row another request has deleted since is not counted against the batch.  *)
C15_AttendanceBatchStatuses ==
  [][\A p \in Procs :
       /\ \A ab \in RowAbsentSets :
            AttStart(p, "H1", "101", "2024-01", ab) => C15_Read(p, "H1", "101")
       /\ AttWrite(p) => C15_Write(inflight[p])
       /\ AttRespond(p) => C15_Answer(inflight[p])]_vars

(* ------------- the status column, requests arriving at any time --------- *)
\* the statements of two attendance batches and the PUT requests in any order
NextStatus ==
  \/ students_seq <= MaxConcStudents /\ CreateStudent("H1", "Asha", "101", "AC", "p1", NoPhoto) /\ Recorded
  \/ \E p \in Procs, ab \in AbsentSets : AttStart(p, "H1", "101", "2024-01", ab) /\ Recorded
  \/ \E p \in Procs : AttSteps(p, MaxConcRows)
  \/ \E id \in 1..MaxConcRows, r \in Rooms, st \in RowStatuses :
       UpdateAttendance(id, "2024-01", r, st) /\ Recorded

SpecStatus == Init /\ [][NextStatus]_vars

(* C19: every attendance row has status Present or Absent; a PUT carrying   *)
(* another status is answered 400 and changes no row, and a status with     *)
(* surrounding white space is stored trimmed.                               *)
C19_StatusPresentOrAbsent ==
  [][/\ \A a \in attendance' : a.status \in {Present, Absent}
     /\ \A id \in 1..MaxConcRows, r \in Rooms, st \in RowStatuses :
          (response'.op = "updateAttendance" /\ UpdateAttendance(id, "2024-01", r, st))
            => IF st \in OtherStatuses
                 THEN response'.code = 400 /\ ~response'.success /\ attendance' = attendance
                 ELSE /\ response'.code = 200
                      /\ response'.success
                           => \E a \in attendance', ps \in PaddedStatuses :
                                a.id = id /\ ps[1] = st /\ a.status = ps[2]]_vars

C19_Witness ==
  /\ response.op = "updateAttendance"
  /\ response.code = 200 /\ response.success
  /\ \E p \in Procs : inflight[p].pc = "write"
  /\ \E a, b \in attendance : a.status = Present /\ b.status = Absent /\ b.room_number = "102"

(* ----------------------------- name search ------------------------------ *)
MaxSearchStudents == 3

SearchStudentIds == 1..MaxSearchStudents
StoredNames == {<<"A", "s", "h", "a">>, <<"B", "A", "L", "A">>}
QueryNames == {<<>>, <<"a", "s", "h", "a">>, <<"B", "a", "L", "a">>, <<"b", "a", "l", "a">>,
               <<"A", "s", "h">>}
QueryHostels == {""} \cup Hostels

NextSearch ==
  \/ \E h \in Hostels, n \in StoredNames :
       students_seq <= MaxSearchStudents /\ CreateStudent(h, n, "101", "AC", "p1", NoPhoto) /\ Recorded
  \/ \E id \in SearchStudentIds : SoftDelete(id) /\ Recorded
  \/ \E h \in QueryHostels, q \in QueryNames : SearchStudent(h, q) /\ Recorded

SpecSearch == Init /\ [][NextSearch]_vars

C16_CasePairs == {<<u, ToLower[u]>> : u \in DOMAIN ToLower}

C16_SameIgnoringCase(n, q) ==
  /\ Len(n) = Len(q)
  /\ \A i \in 1..Len(n) :
       n[i] = q[i] \/ <<n[i], q[i]>> \in C16_CasePairs \/ <<q[i], n[i]>> \in C16_CasePairs

C16_ActiveMatches(h, q) ==
  {s \in students : s.hostel_code = h /\ s.is_deleted = 0 /\ C16_SameIgnoringCase(s.name, q)}

C16_Post(h, q) ==
  /\ response'.code = 200
  /\ students' = students
  /\ IF C16_ActiveMatches(h, q) # {}
       THEN response'.success /\ response'.data[1] \in C16_ActiveMatches(h, q)
       ELSE ~response'.success /\ response'.message = "No student found"

(* C16: a name search with both parameters returns an active student of the *)
(* given hostel whose name equals the query ignoring letter case whenever   *)
(* one exists, never a soft-deleted student or one of another hostel, and   *)
(* answers success false "No student found" when there is no active match.  *)
C16_NameSearchIgnoresCase ==
  [][\A h \in Hostels, q \in QueryNames \ {<<>>} :
       (response'.op = "searchStudent" /\ SearchStudent(h, q)) => C16_Post(h, q)]_vars

C16_Witness ==
  /\ response.op = "searchStudent"
  /\ response.success
  /\ response.data[1].name = <<"B", "A", "L", "A">>
  /\ response.data[1].hostel_code = "H1"
  /\ \E s, t \in students :
       /\ s.hostel_code = "H1" /\ s.is_deleted = 1 /\ s.name = <<"B", "A", "L", "A">>
       /\ t.hostel_code = "H2" /\ t.is_deleted = 0 /\ t.name = <<"B", "A", "L", "A">>

(* ---------------- one attendance row per key, sequentially -------------- *)
C21_Key(a) == <<a.hostel_code, a.date, a.room_number, a.student_id>>

(* C21: in every state reached by requests served one after another         *)
(* (attendance batch, PUT /api/attendance/:id, DELETE /api/attendance/:id), *)
(* the attendance table holds at most one row per (hostel_code, date,       *)
(* room_number, student_id).                                                *)
C21_SequentialOneRowPerKey ==
  serial => Cardinality({C21_Key(a) : a \in attendance}) = Cardinality(attendance)

(* ------------------- concurrent eb-batch requests ----------------------- *)
EbConcTotals == {3, 6}
EbConcPaid == {1, 2}

NextEbConc ==
  \/ students_seq <= MaxConcStudents /\ CreateStudent("H1", "Asha", "101", "AC", "p1", NoPhoto) /\ Recorded
  \/ \E p \in Procs, total \in EbConcTotals : EbStart(p, "H1", "101", "2024-01", total) /\ Recorded
  \/ \E p \in Procs : EbSelect(p) /\ Recorded
  \/ \E p \in Procs : EbWrite(p) /\ monthly_accounts_seq' <= MaxConcRows + 1 /\ Recorded
  \/ \E p \in Procs : EbRespond(p) /\ Recorded
  \/ \E id \in 1..MaxConcRows, paid \in EbConcPaid :
       /\ \E m \in monthly_accounts : m.id = id
       /\ UpdateMonthlyAccount(id, "2024-01", "101", 0, 0, 3, paid, 3 - paid) /\ Recorded

SpecEbConc == InitEb /\ [][NextEbConc]_vars

C22_Key(m) == <<m.hostel_code, m.student_id, m.date>>

(* C22: once two concurrent eb-batch requests for the same hostel, room and *)
(* date have both completed, under every interleaving of their statements,  *)
(* monthly_accounts holds exactly one row per (hostel_code, student_id,     *)
(* date), whose eb_share is that of one of the two requests.                *)
C22_ConcurrentEbBatchOneRowPerKey ==
  (response.op = "ebBatch" /\ response.success /\ \A p \in Procs : inflight[p].pc = "idle")
    => /\ Cardinality({C22_Key(m) : m \in monthly_accounts}) = Cardinality(monthly_accounts)
       /\ \A sid \in ActiveInRoom(students, "H1", "101") :
            \E m \in monthly_accounts :
              m.student_id = sid /\ m.eb_share \in {EbShare(t, 1) : t \in EbConcTotals}

(* C5: when the EB batch has selected a monthly_accounts row of the student *)
(* for (hostel_code, student_id, date) and the row is there at its write,   *)
(* the write inserts none, keeps eb_paid, rent_paid and rent_remaining of   *)
(* every row, and on the row it selected overwrites room_number and         *)
(* eb_share and sets eb_remaining to max(0, new eb_share - eb_paid of the   *)
(* row); every other row stays.                                             *)
C5_Post(q) ==
  /\ monthly_accounts_seq' = monthly_accounts_seq
  /\ {m.id : m \in monthly_accounts'} = {m.id : m \in monthly_accounts}
  /\ \A m \in monthly_accounts : \E m2 \in monthly_accounts' :
       /\ m2.id = m.id /\ m2.eb_paid = m.eb_paid
       /\ m2.rent_paid = m.rent_paid /\ m2.rent_remaining = m.rent_remaining
       /\ m2.hostel_code = m.hostel_code /\ m2.student_id = m.student_id
       /\ m2.date = m.date
       /\ IF \E e \in q.existing : e.id = m.id
            THEN /\ m2.room_number = q.room /\ m2.eb_share = q.ebShare
                 /\ m2.eb_remaining = (IF q.ebShare > m.eb_paid
                                         THEN q.ebShare - m.eb_paid ELSE 0)
            ELSE m2 = m

C5_ExistingRowKeepsPayments ==
  [][\A p \in Procs :
       (/\ EbWrite(p) /\ inflight[p].existing # {}
        /\ \A e \in inflight[p].existing : \E m \in monthly_accounts : m.id = e.id)
         => C5_Post(inflight[p])]_vars

(* C6: when the EB batch has found no monthly_accounts row of the student   *)
(* for (hostel_code, student_id, date), its write inserts exactly one row,  *)
(* the only one of that key, with room_number the room, rent_paid = 0,      *)
(* rent_remaining = 0, eb_paid = 0, eb_share the share and eb_remaining     *)
(* equal to eb_share, and changes no other row.                             *)
C6_Post(q) ==
  LET new == ExistingMa(monthly_accounts', q.hostel_code, q.students[q.i], q.date)
  IN /\ Cardinality(new) = 1
     /\ monthly_accounts' \ monthly_accounts = new
     /\ monthly_accounts \subseteq monthly_accounts'
     /\ \A m \in new :
          /\ m.room_number = q.room /\ m.rent_paid = 0 /\ m.rent_remaining = 0
          /\ m.eb_paid = 0 /\ m.eb_share = q.ebShare /\ m.eb_remaining = q.ebShare
          /\ \A e \in monthly_accounts : e.id # m.id

C6_FreshRowInserted ==
  [][\A p \in Procs :
       (EbWrite(p) /\ inflight[p].existing = {}) => C6_Post(inflight[p])]_vars

(* C24: when a PUT /api/monthly_accounts/:id records a payment on a row     *)
(* between the batch's read of eb_paid and its write, the eb_remaining the  *)
(* batch writes is max(0, eb_share - eb_paid) for the eb_paid the row holds *)
(* at the moment of the write, and the batch leaves eb_paid as it is.       *)
C24_BatchWritesFromCurrentPaid ==
  [][\A p \in Procs :
       (inflight[p].pc = "ebWrite" /\ inflight[p].existing # {} /\ EbWrite(p))
         => \A e \in inflight[p].existing, m \in monthly_accounts :
              m.id = e.id
                => \E m2 \in monthly_accounts' :
                     /\ m2.id = m.id
                     /\ m2.eb_paid = m.eb_paid
                     /\ m2.eb_remaining = Max0(inflight[p].ebShare - m.eb_paid)]_vars

(* ------------------- eb-batch with any integer total -------------------- *)
MaxNegStudents == 2

NegTotals == {-3, 0, 3}

\* the requests arrive at any time, also between the statements of a request in flight
NextEbNeg ==
  \/ students_seq <= MaxNegStudents /\ CreateStudent("H1", "Asha", "101", "AC", "p1", NoPhoto) /\ Recorded
  \/ \E id \in 1..MaxNegStudents : SoftDelete(id) /\ Recorded
  \/ \E total \in NegTotals : EbStart(1, "H1", "101", "2024-01", total) /\ Recorded
  \/ \E id \in 1..MaxNegStudents, paid \in {1, 2} :
       /\ \E m \in monthly_accounts : m.id = id
       /\ UpdateMonthlyAccount(id, "2024-01", "101", 0, 0, 3, paid, 3 - paid) /\ Recorded
  \/ EbSteps(1, MaxNegStudents)

SpecEbNeg == InitEb /\ [][NextEbNeg]_vars

(* C23: for every integer eb_total, negative ones included, once eb-batch   *)
(* has completed on a room with active students, every monthly_accounts row *)
(* of these students for the date has eb_remaining = max(0, eb_share -      *)
(* eb_paid), hence eb_remaining >= 0, whether inserted or updated; no other *)
(* request is in flight.                                                    *)
C23_EbRemainingNeverNegative ==
  [][\A p \in Procs :
       (EbRespond(p) /\ serial')
         => \A m \in monthly_accounts' :
              (/\ m.hostel_code = inflight[p].hostel_code /\ m.date = inflight[p].date
               /\ m.student_id \in ActiveInRoom(students, inflight[p].hostel_code,
                                                 inflight[p].room))
                => /\ m.eb_remaining = Max0(m.eb_share - m.eb_paid)
                   /\ m.eb_remaining >= 0]_vars

(* ---------------- batches interrupted by a storage error ---------------- *)
MaxErrStudents == 2

ErrAbsentSets == {{}, {1}}
ErrTotals == {4, 6}

\* the requests arrive at any time; any statement of the two batches may be rejected
NextBatchErr ==
  \/ students_seq <= MaxErrStudents /\ CreateStudent("H1", "Asha", "101", "AC", "p1", NoPhoto) /\ Recorded
  \/ \E id \in 1..MaxErrStudents : SoftDelete(id) /\ Recorded
  \/ \E ab \in ErrAbsentSets : AttStart(1, "H1", "101", "2024-01", ab) /\ Recorded
  \/ AttSteps(1, MaxErrStudents)
  \/ AttStartThrows("H1", "101", "2024-01") /\ Recorded
  \/ AttThrow(1) /\ Recorded
  \/ \E total \in ErrTotals : EbStart(2, "H1", "101", "2024-01", total) /\ Recorded
  \/ EbSteps(2, MaxErrStudents)
  \/ EbStartThrows("H1", "101", "2024-01") /\ Recorded
  \/ EbThrow(2) /\ Recorded

SpecBatchErr == Init /\ [][NextBatchErr]_vars

C25_Roster == {s.id : s \in {x \in students : x.hostel_code = "H1" /\ x.room_number = "101"
                                                /\ x.is_deleted = 0}}

\* the answer of the catch block; the throw itself writes nothing and ends the request
C25_Failed(p) ==
  /\ response'.code = 500 /\ response'.success = FALSE
  /\ Store' = Store
  /\ attendance_seq' = attendance_seq /\ monthly_accounts_seq' = monthly_accounts_seq
  /\ inflight'[p] = Idle

\* the rows of the students of the passes before the one that failed
C25_AttPrefix(q) ==
  \A j \in 1..(q.i - 1) :
    \E a \in attendance' :
      /\ a.student_id = q.students[j] /\ a.hostel_code = q.hostel_code
      /\ a.date = q.date /\ a.room_number = q.room
      /\ a.status = IF q.students[j] \in q.absentSet THEN Absent ELSE Present

C25_EbPrefix(q) ==
  \A j \in 1..(q.i - 1) :
    \E m \in monthly_accounts' :
      /\ m.student_id = q.students[j] /\ m.hostel_code = q.hostel_code
      /\ m.date = q.date /\ m.room_number = q.room
      /\ m.eb_share = q.ebTotal \div Len(q.students)

\* a statement that is not rejected writes rows of the student of its own pass only
C25_OwnPass(p) ==
  LET q == inflight[p]
  IN /\ (AttSelect(p) \/ EbSelect(p)) => Store' = Store
     /\ AttWrite(p) =>
          /\ {a \in attendance' : a.student_id # q.students[q.i]}
               = {a \in attendance : a.student_id # q.students[q.i]}
          /\ monthly_accounts' = monthly_accounts
     /\ EbWrite(p) =>
          /\ {m \in monthly_accounts' : m.student_id # q.students[q.i]}
               = {m \in monthly_accounts : m.student_id # q.students[q.i]}
          /\ attendance' = attendance

(* C25: a storage error in the pass of the k-th of n students of an         *)
(* attendance batch or eb-batch is answered 500 with success false; the     *)
(* upserts of the first k-1 students stay in the store, no row of the       *)
(* students k..n is written or changed, and the request ends there: the     *)
(* statement is not issued again and no later pass runs. A rejected roster  *)
(* SELECT is answered 500 with nothing written.                             *)
C25_BatchErrorKeepsPrefix ==
  [][/\ \A p \in Procs :
          /\ C25_OwnPass(p)
          /\ AttThrow(p) => (C25_Failed(p) /\ C25_AttPrefix(inflight[p]))
          /\ EbThrow(p) => (C25_Failed(p) /\ C25_EbPrefix(inflight[p]))
     /\ (AttStartThrows("H1", "101", "2024-01") \/ EbStartThrows("H1", "101", "2024-01"))
          => (response'.code = 500 /\ response'.success = FALSE /\ Store' = Store)]_vars

C25_Witness ==
  /\ response.op = "ebBatch"
  /\ response.code = 500
  /\ Cardinality(C25_Roster) = 2
  /\ \E m \in monthly_accounts : m.student_id = 1 /\ m.eb_share = 3
  /\ ~ \E m \in monthly_accounts : m.student_id = 2

(* ------------ permanent delete concurrent with a batch request ---------- *)
NextPermConc ==
  \/ students_seq <= MaxConcStudents /\ CreateStudent("H1", "Asha", "101", "AC", "p1", NoPhoto) /\ Recorded
  \/ \E p \in Procs : AttStart(p, "H1", "101", "2024-01", {}) /\ Recorded
  \/ \E p \in Procs : AttSelect(p) /\ Recorded
  \/ \E p \in Procs : AttWrite(p) /\ attendance_seq' <= MaxConcRows + 1 /\ Recorded
  \/ \E p \in Procs : AttRespond(p) /\ Recorded
  \/ \E p \in Procs : EbStart(p, "H1", "101", "2024-01", 3) /\ Recorded
  \/ \E p \in Procs : EbSelect(p) /\ Recorded
  \/ \E p \in Procs : EbWrite(p) /\ monthly_accounts_seq' <= MaxConcRows + 1 /\ Recorded
  \/ \E p \in Procs : EbRespond(p) /\ Recorded
  \/ \E p \in Procs, id \in 1..MaxConcStudents : PsStart(p, id) /\ Recorded
  \/ \E p \in Procs : PsStatement(p) /\ Recorded
  \/ \E p \in Procs : PsThrow(p) /\ Recorded
  \/ \E p \in Procs : PsRespond(p) /\ Recorded
  \/ \E p \in Procs, id \in 1..MaxConcStudents : PdConnect(p, id) /\ Recorded
  \/ \E p \in Procs : PdBegin(p) /\ Recorded
  \/ \E p \in Procs : PdStatement(p) /\ Recorded
  \/ \E p \in Procs : PdCommit(p) /\ Recorded
  \/ \E p \in Procs : PdThrow(p) /\ Recorded
  \/ \E p \in Procs : PdRollback(p) /\ Recorded
  \/ \E p \in Procs : PdRollbackThrows(p) /\ Recorded
  \/ \E p \in Procs : PdRespond(p) /\ Recorded
  \/ \E p \in Procs : PdRelease(p) /\ Recorded
  \/ \E p \in Procs : PdEnd(p) /\ Recorded

SpecPermConc == Init /\ [][NextPermConc]_vars

(* C26: once a permanent delete of a student and a concurrent attendance    *)
(* batch or eb-batch that had read the roster containing the student have   *)
(* both completed, no attendance or monthly_accounts row has the student's  *)
(* id as student_id.                                                        *)
C26_NoRowLeftForDeletedStudent ==
  (\A p \in Procs : inflight[p].pc \in {"idle", "pdDone"})
    => \A id \in 1..(students_seq - 1) :
         (~ \E s \in students : s.id = id)
           => /\ ~ \E a \in attendance : a.student_id = id
              /\ ~ \E m \in monthly_accounts : m.student_id = id

(* C27: a permanent delete answered success false "Student not found"       *)
(* leaves the five tables unchanged, the rent_payments, extra_food,         *)
(* attendance and monthly_accounts rows carrying the requested id included; *)
(* no other request is in flight.                                           *)
C27_NotFoundDeletesNothing ==
  [][\A p \in Procs :
       (PermAnswers(p) /\ response'.message = "Student not found" /\ serial')
         => Store' = inflight[p].before]_vars

(* ------------- permanent delete requests on pooled clients -------------- *)
MaxPdStudents == 1

PdPcs == {"pdBegin", "pdStatement", "pdCommit", "pdRollback", "pdRespond", "pdRelease", "pdDone"}

NextPd ==
  \/ students_seq <= MaxPdStudents /\ CreateStudent("H1", "Asha", "101", "AC", "p1", NoPhoto) /\ Recorded
  \/ \E sid \in 1..MaxPdStudents : rent_payments_seq <= MaxPdStudents /\ AddRent(sid, "2024-01", 1, 0) /\ Recorded
  \/ \E p \in Procs, id \in 1..MaxPdStudents : PdConnect(p, id) /\ Recorded
  \/ \E p \in Procs : PdBegin(p) /\ Recorded
  \/ \E p \in Procs : PdStatement(p) /\ Recorded
  \/ \E p \in Procs : PdCommit(p) /\ Recorded
  \/ \E p \in Procs : PdThrow(p) /\ Recorded
  \/ \E p \in Procs : PdRollback(p) /\ Recorded
  \/ \E p \in Procs : PdRollbackThrows(p) /\ Recorded
  \/ \E p \in Procs : PdRespond(p) /\ Recorded
  \/ \E p \in Procs : PdRelease(p) /\ Recorded
  \/ \E p \in Procs : PdEnd(p) /\ Recorded

SpecPd == InitEb /\ [][NextPd]_vars

(* C28: in the Postgres variant a permanent delete that has acquired a      *)
(* pooled client releases it exactly once and sends exactly one response on *)
(* every path, and ends with no client checked out and no transaction open. *)
C28_ClientReleasedOnceOneResponse ==
  \A p \in Procs :
    inflight[p].pc \in PdPcs
      => /\ inflight[p].released <= 1
         /\ inflight[p].sent <= 1
         /\ inflight[p].released = 1 <=> ~inflight[p].client
         /\ inflight[p].pc = "pdDone"
              => /\ inflight[p].released = 1
                 /\ inflight[p].sent = 1
                 /\ ~inflight[p].client
                 /\ ~inflight[p].tx

(* ------------- concurrent soft delete and restore requests -------------- *)
NextSd ==
  \/ Tick /\ Recorded
  \/ students_seq <= MaxConcStudents /\ CreateStudent("H1", "Asha", "101", "AC", "p1", NoPhoto) /\ Recorded
  \/ \E p \in Procs, id \in 1..MaxConcStudents : SdStart(p, id) /\ Recorded
  \/ \E p \in Procs : SdUpdate(p) /\ Recorded
  \/ \E p \in Procs, id \in 1..MaxConcStudents : RsStart(p, id) /\ Recorded
  \/ \E p \in Procs : RsUpdate(p) /\ Recorded
  \/ \E p \in Procs : SdRespond(p) /\ Recorded
  \/ \E p \in Procs, id \in 1..MaxConcStudents, photo \in {NoPhoto, "/uploads/a.jpg"} :
       UsSelect(p, id, "H1", "Ravi", "102", "AC", "p2", photo) /\ Recorded
  \/ \E p \in Procs : UsUpdate(p) /\ Recorded

SpecSd == Init /\ [][NextSd]_vars

C29_Raced(p, o) ==
  /\ inflight[p].pc = "sdDone" /\ inflight[o].pc = "sdDone"
  /\ inflight[p].id = inflight[o].id
  /\ inflight[p].sawActive /\ inflight[o].sawActive

C29_TwoSoftDeletes(p, o) ==
  (C29_Raced(p, o) /\ inflight[p].op = "softDelete" /\ inflight[o].op = "softDelete")
    => \E w \in {p, o} :
         LET l == IF w = p THEN o ELSE p
         IN /\ inflight[w].rowCount = 1 /\ inflight[w].message = ""
            /\ inflight[l].rowCount = 0
            /\ inflight[l].message = "Student not found (or already deleted)"
            /\ \E s \in students :
                 s.id = inflight[w].id /\ s.is_deleted = 1 /\ s.deleted_at = inflight[w].now

C29_SoftDeleteAndRestore(p, o) ==
  (C29_Raced(p, o) /\ inflight[p].op = "softDelete" /\ inflight[o].op = "restore")
    => /\ inflight[p].rowCount = 1 /\ inflight[o].rowCount = 1
       /\ \E s \in students :
            /\ s.id = inflight[p].id
            /\ \/ s.is_deleted = 0 /\ s.deleted_at = NULL
               \/ s.is_deleted = 1 /\ s.deleted_at = inflight[p].now

(* C29: of two concurrent soft deletes of the same active student exactly   *)
(* one answers success and the other "Student not found (or already         *)
(* deleted)", and deleted_at is the timestamp of the successful one; a soft *)
(* delete racing with a restore both succeed and leave the student as one   *)
(* of the two sequential orders would.                                      *)
C29_ConcurrentSoftDeleteSerializes ==
  \A p, o \in Procs :
    p # o => C29_TwoSoftDeletes(p, o) /\ C29_SoftDeleteAndRestore(p, o)

C29_Witness ==
  /\ C29_Raced(1, 2)
  /\ inflight[1].op = "softDelete" /\ inflight[2].op = "softDelete"
  /\ inflight[1].now < inflight[2].now
  /\ inflight[2].rowCount = 1
  /\ \E s \in students : s.deleted_at = inflight[2].now

====
